---- MODULE Spec2Model ----
(***************************************************************************)
(* The structured logger of eudore (logger.go): LoggerStd entries, the     *)
(* direct-write backend loggerStdDataJSON, the buffering backend           *)
(* loggerStdDataInit with its drain, and the periodic flush task started   *)
(* by Mount and stopped by Unmount.                                        *)
(*                                                                         *)
(*   Spec       one caller using a direct-write logger                     *)
(*   SpecInit   one caller using a buffering logger that is then drained   *)
(*              into a direct-write logger                                 *)
(*   SpecMount  the goroutines around the backend mutex and the done       *)
(*              channel; FairMount adds the scheduler's fairness           *)
(*   SpecWriter the goroutines that call the LoggerWriter                  *)
(*   SpecRotate the file writers: construction, Write, Sync, rotation      *)
(*   SpecLevel  LoggerLevel encoded to text and decoded from it            *)
(*   SpecFormat the bytes of a line written for an entry                   *)
(***************************************************************************)
EXTENDS Integers, Sequences, FiniteSets, Bags, TLC

VARIABLES
    config,     \* LoggerStdConfig of the direct-write logger: Level, FileLine
    logger,     \* the handle NewLoggerStd returned for the direct-write backend
    initlog,    \* the handle NewLoggerInit returned
    sub,        \* <<>> or <<h>>: a derived handle the caller keeps
    cur,        \* <<>> or <<e>>: the call entry the caller is chaining on
    pool,       \* loggerStdDataJSON.Pool: a bag of entries
    output,     \* the lines the last API call passed to LoggerWriter.Write, in order
    dirty,      \* bytes were written to the LoggerWriter since its last Sync
    Data,       \* loggerStdDataInit.Data
    now,        \* the wall clock read by time.Now()
    ops,        \* number of API calls made so far
    handed,     \* the entries the last API call passed to PutLogger, in order
    lastCall,   \* what the caller's last API call was
    panicked,   \* "" or the run-time panic the last API call ended with
    mu,         \* loggerStdDataJSON.Mutex: "" or the goroutine holding it
    done,       \* loggerStdDataJSON.done: 0 (nil) or the channel it refers to
    chans,      \* number of channels made so far; channels are 1..chans
    closed,     \* the channels that were closed
    pc,         \* position of the calling goroutines and the logging goroutine
    call,       \* per calling goroutine: the Mount/Unmount call it is inside
    task,       \* the periodic tasks started so far: position, select operand
    mounted,    \* number of Mount calls started
    crash,      \* "" or the panic that ended the process
    lw,         \* the LoggerWriter NewLoggerWriterRotate returned, or NoWriter
    files,      \* the log directory: size on disk of every file, by name
    rnow,       \* the wall clock the writer reads, in half hours
    rhist,      \* the files the writer made current, in order, with their records
    rret,       \* what the last call of the writer returned
    lvl,        \* a LoggerLevel, the text it is encoded to or decoded from
    fmt,        \* an entry in PutLogger and the buffer written for it
    hc,         \* two HandlerFuncs and what combining them returned
    ib,         \* the buffering backend shared by goroutines: mutex, Data, drain
    wl          \* emission calls of goroutines and the lines the writer was passed

apiVars   == <<config, logger, initlog, sub, cur, pool, output, dirty, Data,
               now, ops, handed, lastCall, panicked>>
apiRest   == <<config, logger, initlog, sub, cur, pool, output, Data,
               now, ops, handed, lastCall, panicked>>
mountVars == <<mu, done, chans, closed, pc, call, task, mounted, crash>>
rotVars   == <<lw, files, rnow, rhist, rret>>
concVars  == <<ib, wl>>
extVars   == <<rotVars, lvl, fmt, hc, concVars>>
vars      == <<config, logger, initlog, sub, cur, pool, output, dirty, Data,
               now, ops, handed, lastCall, panicked,
               mu, done, chans, closed, pc, call, task, mounted, crash,
               extVars>>

----------------------------------------------------------------------------
(* Bounds of the model *)

MaxOps    == 3   \* API calls in one behaviour
MaxFields == 2   \* keys, and values, a caller attaches to one entry
MaxClock  == 2   \* readings of the wall clock: 1..MaxClock
MaxMounts == 2   \* Mount calls in one behaviour

----------------------------------------------------------------------------
(* Severities, logger.go:22-28 and :601 *)

LoggerDebug   == 0
LoggerInfo    == 1
LoggerWarning == 2
LoggerError   == 3
LoggerFatal   == 4

loggerlevels == <<"DEBUG", "INFO", "WARIRNG", "ERROR", "FATAL">>

----------------------------------------------------------------------------
(* Field values: an interface{} is its dynamic type and its value.         *)

IntV(n)  == [t |-> "int",     s |-> "", n |-> n]
StrV(s)  == [t |-> "string",  s |-> s,  n |-> 0]
TimeV(n) == [t |-> "time",    s |-> "", n |-> n]
BoolV(b) == [t |-> "bool",    s |-> "", n |-> IF b THEN 1 ELSE 0]
CtxV(n)  == [t |-> "context", s |-> "", n |-> n]

----------------------------------------------------------------------------
(* Entries                                                                 *)

\* logdepath of NewLoggerStdDataJSON
logdepath(cfg) == IF cfg.FileLine THEN 3 + 256 ELSE 3

\* Pool.New of NewLoggerStdDataJSON
PoolNew(cfg) ==
    [data |-> "json", Level |-> cfg.Level, Depth |-> logdepath(cfg),
     Keys |-> <<>>, Vals |-> <<>>, Time |-> 0, Message |-> "",
     Buffer |-> <<>>, Logger |-> FALSE]

\* loggerStdDataInit.GetLogger: a zero LoggerStd
InitNew ==
    [data |-> "init", Level |-> 0, Depth |-> 0,
     Keys |-> <<>>, Vals |-> <<>>, Time |-> 0, Message |-> "",
     Buffer |-> <<>>, Logger |-> FALSE]

\* NewLoggerStd: the entry of data.GetLogger() marked as a handle
NewLoggerStd(e) == [e EXCEPT !.Logger = TRUE]

\* The backends' state an operation reads and writes, as one record.
\* out collects what the call under way writes.
World == [pool |-> pool, out |-> <<>>, dirty |-> dirty, Data |-> Data,
          panic |-> ""]

\* sync.Pool.Get: any pooled instance, or a new one
loggerStdDataJSON_GetLogger(w) ==
    { <<e, [w EXCEPT !.pool = @ (-) SetToBag({e})]>> : e \in BagToSet(w.pool) }
        \cup { <<PoolNew(config), w>> }

loggerStdDataInit_GetLogger(w) == { <<InitNew, w>> }

GetLogger(d, w) ==
    IF d = "json" THEN loggerStdDataJSON_GetLogger(w)
    ELSE loggerStdDataInit_GetLogger(w)

\* LoggerStd.getEntry: the set of <<newentry, world>> it can return
getEntry(entry, w) ==
    { << [p[1] EXCEPT
            !.Level = entry.Level,
            !.Depth = entry.Depth,
            !.Keys  = IF Len(entry.Keys) # 0 THEN @ \o entry.Keys ELSE @,
            !.Vals  = IF Len(entry.Keys) # 0 THEN @ \o entry.Vals ELSE @],
         p[2] >> : p \in GetLogger(entry.data, w) }

\* "if entry.Logger { entry = entry.getEntry() }"
own(entry, w) == IF entry.Logger THEN getEntry(entry, w) ELSE { <<entry, w>> }

appendField(entry, key, value) ==
    [entry EXCEPT !.Keys = Append(@, key), !.Vals = Append(@, value)]

\* Depth |= 0x100, Depth |= 0x200, Depth &^= 0x300 on a two's complement int
bit(n, b)   == (n \div b) % 2
setBit(n, b) == IF bit(n, b) = 1 THEN n ELSE n + b
clearBits89(n) == n - 256 * bit(n, 256) - 512 * bit(n, 512)

\* LoggerStd.withFieldDepth
withFieldDepth(entry, key, value) ==
    IF value.t = "int" THEN [entry EXCEPT !.Depth = @ + value.n]
    ELSE IF value.t = "string" THEN
        CASE value.s = "stack"   -> [entry EXCEPT !.Depth = setBit(@, 512)]
          [] value.s = "enable"  -> [entry EXCEPT !.Depth = setBit(@, 256)]
          [] value.s = "disable" -> [entry EXCEPT !.Depth = clearBits89(@)]
          [] OTHER               -> entry
    ELSE appendField(entry, key, value)

\* the first index i with Keys[i] = "context", or 0
contextIndex(entry) ==
    LET hits == { i \in 1..Len(entry.Keys) : entry.Keys[i] = "context" }
    IN  IF hits = {} THEN 0 ELSE CHOOSE i \in hits : \A j \in hits : i <= j

\* the switch on key with the logger case taken for any boolean
withFieldSwitch_LoggerAnyBool(entry, key, value) ==
    CASE key = "context" /\ value.t = "context" /\ contextIndex(entry) # 0 ->
            [entry EXCEPT !.Vals[contextIndex(entry)] = value]
      [] key = "depth" -> withFieldDepth(entry, key, value)
      [] key = "time" /\ value.t = "time" -> [entry EXCEPT !.Time = value.n]
      [] key = "logger" /\ value.t = "bool" ->
            [entry EXCEPT !.Logger = (value.n = 1)]
      [] OTHER -> appendField(entry, key, value)

\* LoggerStd.WithField after the clone: the switch on key
withFieldSwitch(entry, key, value) ==
    CASE key = "context" /\ value.t = "context" /\ contextIndex(entry) # 0 ->
            [entry EXCEPT !.Vals[contextIndex(entry)] = value]
      [] key = "depth" -> withFieldDepth(entry, key, value)
      [] key = "time" /\ value.t = "time" -> [entry EXCEPT !.Time = value.n]
      [] key = "logger" /\ value.t = "bool" /\ value.n = 1 ->
            [entry EXCEPT !.Logger = TRUE]
      [] OTHER -> appendField(entry, key, value)

\* "entry.Vals[i] = val" of the context case indexes Vals by a position of Keys
withFieldPanics(entry, key, value) ==
    key = "context" /\ value.t = "context"
        /\ contextIndex(entry) > Len(entry.Vals)

\* LoggerStd.WithField: the set of <<entry, world>> it can return
WithField(entry, key, value, w) ==
    { IF withFieldPanics(p[1], key, value)
      THEN <<p[1], [p[2] EXCEPT !.panic = "index out of range"]>>
      ELSE <<withFieldSwitch(p[1], key, value), p[2]>> : p \in own(entry, w) }

\* LoggerStd.WithFields
WithFields(entry, key, value, w) ==
    { << [p[1] EXCEPT !.Keys = @ \o key, !.Vals = @ \o value], p[2] >> :
        p \in own(entry, w) }

----------------------------------------------------------------------------
(* Formatting                                                              *)

RECURSIVE joinln(_)
\* fmt.Sprintln of string operands: a space between operands, then a newline
joinln(args) ==
    IF Len(args) = 0 THEN "\n"
    ELSE IF Len(args) = 1 THEN args[1] \o "\n"
    ELSE args[1] \o " " \o joinln(Tail(args))

Sprintln(args) == joinln(args)

\* "entry.Message = entry.Message[:len(entry.Message)-1]"
dropLast(s) == SubSeq(s, 1, Len(s) - 1)

RECURSIVE Sprintf(_, _)
\* fmt.Sprintf for formats whose verbs are %v, over string operands
Sprintf(format, args) ==
    IF Len(format) = 0 THEN
        IF Len(args) = 0 THEN ""
        ELSE "%!(EXTRA string=" \o args[1] \o ")"
    ELSE IF Len(format) >= 2 /\ SubSeq(format, 1, 2) = "%v" THEN
        IF Len(args) = 0
        THEN "%!v(MISSING)" \o Sprintf(SubSeq(format, 3, Len(format)), args)
        ELSE args[1] \o Sprintf(SubSeq(format, 3, Len(format)), Tail(args))
    ELSE SubSeq(format, 1, 1) \o Sprintf(SubSeq(format, 2, Len(format)), args)

\* the index expression loggerlevels[entry.Level] panics outside 0..4
levelIndexOK(entry) == entry.Level \in 0..4

\* loggerEntryStdFormat: one rendered line appended to entry.Buffer.
\* time is the rendered Time (the clock reading t when Time is zero), fields
\* are the pairs Keys[i], Vals[i] in order, message is "" when no message
\* member is rendered.
loggerEntryStdFormat(entry, t) ==
    [entry EXCEPT !.Buffer = Append(@,
        [time    |-> IF entry.Time = 0 THEN t ELSE entry.Time,
         level   |-> IF levelIndexOK(entry) THEN loggerlevels[entry.Level + 1]
                     ELSE "",
         fields  |-> [i \in 1..Len(entry.Keys) |->
                        <<entry.Keys[i], entry.Vals[i]>>],
         message |-> entry.Message])]

----------------------------------------------------------------------------
(* Backends                                                                *)

\* what logFormatNameFileLine and GetPanicStack return is the caller's
nameV  == StrV("<name>")
fileV  == StrV("<file>")
lineV  == IntV(0)
stackV == StrV("<stack>")

loggererrText ==
    "LoggerStd.loggerStdDataJSON: The number of field keys and values are not equal"

\* the switch entry.Depth >> 8 of loggerStdDataJSON.PutLogger
capture(entry) ==
    CASE entry.Depth \div 256 = 1 ->
            [entry EXCEPT !.Keys = @ \o <<"name", "file", "line">>,
                          !.Vals = @ \o <<nameV, fileV, lineV>>]
      [] entry.Depth \div 256 \in {2, 3} ->
            [entry EXCEPT !.Keys = Append(@, "stack"),
                          !.Vals = Append(@, stackV)]
      [] OTHER -> entry

\* "if len(entry.Keys) > len(entry.Vals)" of loggerStdDataJSON.PutLogger
trimKeys(entry) ==
    IF Len(entry.Keys) > Len(entry.Vals)
    THEN LET cut == [entry EXCEPT !.Keys = SubSeq(@, 1, Len(entry.Vals))]
         IN  IF cut.Logger THEN cut
             ELSE withFieldSwitch(cut, "loggererr", StrV(loggererrText))
    ELSE entry

\* a writer that puts the buffer in front of what it was passed before
Write_Prepend(w, buffer) == [w EXCEPT !.out = buffer \o @, !.dirty = TRUE]

\* LoggerWriter.Write
Write(w, buffer) == [w EXCEPT !.out = @ \o buffer, !.dirty = TRUE]

\* LoggerWriter.Sync
WriterSync(w) == [w EXCEPT !.dirty = FALSE]

\* loggerStdDataJSON.PutLogger
loggerStdDataJSON_PutLogger(entry, w, t) ==
    IF Len(entry.Message) > 0 \/ Len(entry.Keys) > 0 THEN
        LET e1 == trimKeys(capture(entry))
            e2 == loggerEntryStdFormat(e1, t)
            e3 == [e2 EXCEPT !.Message = "", !.Keys = <<>>, !.Vals = <<>>,
                             !.Buffer = <<>>]
        IN  IF ~levelIndexOK(e1)
            THEN [w EXCEPT !.panic = "index out of range"]
            ELSE [Write(w, e2.Buffer) EXCEPT !.pool = @ (+) SetToBag({e3})]
    ELSE [w EXCEPT !.pool = @ (+) SetToBag({entry})]

\* loggerStdDataInit.PutLogger
loggerStdDataInit_PutLogger(entry, w, t) ==
    [w EXCEPT !.Data = Append(@, [entry EXCEPT !.Time = t])]

PutLogger(entry, w, t) ==
    IF entry.data = "json" THEN loggerStdDataJSON_PutLogger(entry, w, t)
    ELSE loggerStdDataInit_PutLogger(entry, w, t)

----------------------------------------------------------------------------
(* Emission calls: each returns the set of [handed, w] it can end with,    *)
(* handed being the entry it passed to PutLogger.                          *)

\* the shared body without the assignment of the severity to Level
gated_LevelKept(entry, rank, message, w, t) ==
    { LET e == IF p[1].Level < rank + 1
               THEN [p[1] EXCEPT !.Message = message]
               ELSE [p[1] EXCEPT !.Keys = <<>>, !.Vals = <<>>]
      IN  [handed |-> e, w |-> PutLogger(e, p[2], t)] : p \in own(entry, w) }

\* the body shared by Debug, Info, Warning, Error and their f forms
gated(entry, rank, message, w, t) ==
    { LET e == IF p[1].Level < rank + 1
               THEN [p[1] EXCEPT !.Level = rank, !.Message = message]
               ELSE [p[1] EXCEPT !.Keys = <<>>, !.Vals = <<>>]
      IN  [handed |-> e, w |-> PutLogger(e, p[2], t)] : p \in own(entry, w) }

\* Fatal written like the other four severities: with the threshold test
ungated_Thresholded(entry, message, w, t) ==
    gated(entry, LoggerFatal, message, w, t)

\* the body shared by Fatal and Fatalf
ungated(entry, message, w, t) ==
    { LET e == [p[1] EXCEPT !.Level = 4, !.Message = message]
      IN  [handed |-> e, w |-> PutLogger(e, p[2], t)] : p \in own(entry, w) }

Debug(entry, args, w, t)   == gated(entry, 0, dropLast(Sprintln(args)), w, t)
Info(entry, args, w, t)    == gated(entry, 1, dropLast(Sprintln(args)), w, t)
Warning(entry, args, w, t) == gated(entry, 2, dropLast(Sprintln(args)), w, t)
Error(entry, args, w, t)   == gated(entry, 3, dropLast(Sprintln(args)), w, t)
Fatal(entry, args, w, t)   == ungated(entry, dropLast(Sprintln(args)), w, t)

Debugf(entry, format, args, w, t) ==
    gated(entry, LoggerDebug, Sprintf(format, args), w, t)
Infof(entry, format, args, w, t) ==
    gated(entry, LoggerInfo, Sprintf(format, args), w, t)
Warningf(entry, format, args, w, t) ==
    gated(entry, LoggerWarning, Sprintf(format, args), w, t)
Errorf(entry, format, args, w, t) ==
    gated(entry, LoggerError, Sprintf(format, args), w, t)
Fatalf(entry, format, args, w, t) ==
    ungated(entry, Sprintf(format, args), w, t)

\* the call of severity sev: the plain form, or the f form
emit(entry, sev, f, format, args, w, t) ==
    CASE sev = 0 -> IF f THEN Debugf(entry, format, args, w, t)
                    ELSE Debug(entry, args, w, t)
      [] sev = 1 -> IF f THEN Infof(entry, format, args, w, t)
                    ELSE Info(entry, args, w, t)
      [] sev = 2 -> IF f THEN Warningf(entry, format, args, w, t)
                    ELSE Warning(entry, args, w, t)
      [] sev = 3 -> IF f THEN Errorf(entry, format, args, w, t)
                    ELSE Error(entry, args, w, t)
      [] sev = 4 -> IF f THEN Fatalf(entry, format, args, w, t)
                    ELSE Fatal(entry, args, w, t)

----------------------------------------------------------------------------
(* The caller: one goroutine that holds a root handle, at most one derived *)
(* handle (sub) and at most one call entry (cur), and makes one API call   *)
(* at a time.                                                              *)

\* the (key, value) pairs the caller passes to WithField
FieldInputs ==
    { <<"a", StrV("x")>>, <<"time", TimeV(1)>>,
      <<"depth", StrV("enable")>>, <<"depth", StrV("stack")>>,
      <<"depth", StrV("disable")>>, <<"logger", BoolV(TRUE)>> }

\* the (keys, values) pairs the caller passes to WithFields
BatchInputs ==
    { << <<"a", "b">>, <<IntV(1)>> >>,  \* more keys than values
      << <<>>, <<IntV(2)>> >>,          \* a value without a key
      << <<"a", "b">>, <<IntV(1), IntV(2)>> >>,
      << <<"depth">>, <<IntV(1)>> >> }  \* a control key WithFields stores

\* the arguments of an emission call: the plain form or the f form
EmitInputs ==
    { [f |-> FALSE, format |-> "", args |-> <<>>],
      [f |-> FALSE, format |-> "", args |-> <<"x", "y">>],
      [f |-> TRUE, format |-> "m=%v", args |-> <<"x">>] }

\* the levels the caller passes to SetLevel
LevelInputs == (LoggerDebug - 1) .. (LoggerFatal + 1)

Targets(root) ==
    {root} \cup (IF sub # <<>> THEN {"sub"} ELSE {})
           \cup (IF cur # <<>> THEN {"cur"} ELSE {})

Tgt(tg) ==
    CASE tg = "json" -> logger
      [] tg = "init" -> initlog
      [] tg = "sub"  -> sub[1]
      [] tg = "cur"  -> cur[1]

Commit(w) ==
    /\ pool' = w.pool
    /\ output' = w.out
    /\ dirty' = w.dirty
    /\ Data' = w.Data
    /\ panicked' = w.panic

\* where the caller keeps the Logger that WithField or WithFields returned
Place(tg, r, w) ==
    IF w.panic # "" THEN UNCHANGED <<sub, cur>>
    ELSE IF r.Logger THEN /\ sub' = <<r>>
                          /\ cur' = IF tg = "cur" THEN <<>> ELSE cur
    ELSE /\ cur' = <<r>>
         /\ sub' = sub

\* lastCall: the call, its receiver as it was when called (<<>> or <<e>>),
\* the severity and the arguments of an emission call, the arguments of
\* WithField or WithFields, and for a drain the buffer it started with
NoInput == [f |-> FALSE, format |-> "", args |-> <<>>]
NoCall  == [op |-> "", recv |-> <<>>, sev |-> 0, in |-> NoInput, kv |-> <<>>,
            data |-> <<>>]

\* LoggerStd.SetLevel on the root handle
SetLevelCall(root, levels) ==
    /\ ops < MaxOps
    /\ \E l \in levels :
        /\ Tgt(root).Level # l
        /\ IF root = "json"
           THEN logger' = [logger EXCEPT !.Level = l] /\ initlog' = initlog
           ELSE initlog' = [initlog EXCEPT !.Level = l] /\ logger' = logger
        /\ lastCall' = [NoCall EXCEPT !.op = "SetLevel", !.recv = <<Tgt(root)>>]
    /\ ops' = ops + 1
    /\ Commit(World)
    /\ handed' = <<>>
    /\ UNCHANGED <<config, sub, cur, now>>
    /\ UNCHANGED <<mountVars, extVars>>

\* LoggerStd.WithField
WithFieldCall(root, inputs) ==
    /\ ops < MaxOps
    /\ \E tg \in Targets(root), kv \in inputs :
        /\ tg # "cur" => cur = <<>>
        /\ Len(Tgt(tg).Keys) < MaxFields
        /\ Len(Tgt(tg).Vals) < MaxFields
        /\ \E p \in WithField(Tgt(tg), kv[1], kv[2], World) :
            /\ Place(tg, p[1], p[2])
            /\ Commit(p[2])
        /\ lastCall' = [NoCall EXCEPT !.op = "WithField", !.recv = <<Tgt(tg)>>,
                                      !.kv = kv]
    /\ ops' = ops + 1
    /\ handed' = <<>>
    /\ UNCHANGED <<config, logger, initlog, now>>
    /\ UNCHANGED <<mountVars, extVars>>

\* LoggerStd.WithFields
WithFieldsCall(root, inputs) ==
    /\ ops < MaxOps
    /\ \E tg \in Targets(root), kv \in inputs :
        /\ tg # "cur" => cur = <<>>
        /\ Len(Tgt(tg).Keys) + Len(kv[1]) <= MaxFields
        /\ Len(Tgt(tg).Vals) + Len(kv[2]) <= MaxFields
        /\ \E p \in WithFields(Tgt(tg), kv[1], kv[2], World) :
            /\ Place(tg, p[1], p[2])
            /\ Commit(p[2])
        /\ lastCall' = [NoCall EXCEPT !.op = "WithFields", !.recv = <<Tgt(tg)>>,
                                      !.kv = kv]
    /\ ops' = ops + 1
    /\ handed' = <<>>
    /\ UNCHANGED <<config, logger, initlog, now>>
    /\ UNCHANGED <<mountVars, extVars>>

\* Debug, Info, Warning, Error, Fatal and their f forms
EmitCall(root, severities, inputs) ==
    /\ ops < MaxOps
    /\ \E tg \in Targets(root), sev \in severities, in \in inputs :
        \E r \in emit(Tgt(tg), sev, in.f, in.format, in.args, World, now) :
            /\ Commit(r.w)
            /\ handed' = <<r.handed>>
            /\ cur' = IF tg = "cur" THEN <<>> ELSE cur
            /\ lastCall' = [NoCall EXCEPT !.op = "emit", !.recv = <<Tgt(tg)>>,
                                !.sev = sev, !.in = in]
    /\ ops' = ops + 1
    /\ UNCHANGED <<config, logger, initlog, sub, now>>
    /\ UNCHANGED <<mountVars, extVars>>

\* loggerStdDataJSON.Sync and loggerStdDataInit.Sync, called by LoggerStd.Sync
Sync(d, w) == IF d = "json" THEN WriterSync(w) ELSE w

\* LoggerStd.Sync
SyncCall(root) ==
    /\ ops < MaxOps
    /\ root = "json" => dirty
    /\ Commit(Sync(Tgt(root).data, World))
    /\ lastCall' = [NoCall EXCEPT !.op = "Sync"]
    /\ ops' = ops + 1
    /\ handed' = <<>>
    /\ UNCHANGED <<config, logger, initlog, sub, cur, now>>
    /\ UNCHANGED <<mountVars, extVars>>

\* the wall clock advances
Tick ==
    /\ now < MaxClock
    /\ now' = now + 1
    /\ UNCHANGED <<config, logger, initlog, sub, cur, pool, output, dirty,
                   Data, ops, handed, lastCall, panicked>>
    /\ UNCHANGED <<mountVars, extVars>>

----------------------------------------------------------------------------
(* The drain of the buffering backend                                      *)

RECURSIVE replayFields(_, _, _, _)
\* "for i := range data.Keys { entry = entry.WithField(data.Keys[i], data.Vals[i]) }"
\* from index i on: the set of <<entry, world>> it can end with
replayFields(entry, d, i, w) ==
    IF w.panic # "" \/ i > Len(d.Keys) THEN { <<entry, w>> }
    ELSE IF i > Len(d.Vals)
    THEN { <<entry, [w EXCEPT !.panic = "index out of range"]>> }
    ELSE UNION { replayFields(p[1], d, i + 1, p[2]) :
                    p \in WithField(entry, d.Keys[i], d.Vals[i], w) }

\* "switch data.Level": the worlds the emission call can end with
replayLevel(entry, d, w, t) ==
    IF d.Level \in LoggerDebug..LoggerFatal
    THEN { r.w : r \in emit(entry, d.Level, FALSE, "", <<d.Message>>, w, t) }
    ELSE { w }

\* one iteration of "for _, data := range data.Data"
replayEntry(target, d, w, t) ==
    UNION { UNION { IF q[2].panic # "" THEN { q[2] }
                    ELSE replayLevel(q[1], d, q[2], t) :
                        q \in replayFields(p[1], d, 1, p[2]) } :
                p \in WithField(target, "time", TimeV(d.Time), w) }

RECURSIVE replayAll(_, _, _, _, _)
\* the loop over data.Data from index i on
replayAll(target, data, i, w, t) ==
    IF w.panic # "" \/ i > Len(data) THEN { w }
    ELSE UNION { replayAll(target, data, i + 1, w2, t) :
                    w2 \in replayEntry(target, data[i], w, t) }

\* the drain without "data.Data = data.Data[0:0]"
loggerStdDataInit_Unmount_KeepData(target, w, t) ==
    UNION { UNION { { IF r.panic # "" THEN r ELSE Sync(h[1].data, r) :
                          r \in replayAll(h[1], w.Data, 1, h[2], t) } :
                    h \in WithField(p[1], "logger", BoolV(TRUE), p[2]) } :
                p \in WithField(target, "depth", StrV("disable"), w) }

\* loggerStdDataInit.Unmount with target the Logger of the context: the
\* worlds it can end with
loggerStdDataInit_Unmount(target, w, t) ==
    UNION { UNION { { IF r.panic # "" THEN r
                      ELSE Sync(h[1].data, [r EXCEPT !.Data = <<>>]) :
                          r \in replayAll(h[1], w.Data, 1, h[2], t) } :
                    h \in WithField(p[1], "logger", BoolV(TRUE), p[2]) } :
                p \in WithField(target, "depth", StrV("disable"), w) }

\* LoggerStd.Unmount on the buffering logger, the context holding the
\* direct-write logger
UnmountCall ==
    /\ ops < MaxOps
    /\ \E w \in loggerStdDataInit_Unmount(logger, World, now) : Commit(w)
    /\ lastCall' = [NoCall EXCEPT !.op = "Unmount", !.data = Data]
    /\ ops' = ops + 1
    /\ handed' = <<>>
    /\ UNCHANGED <<config, logger, initlog, sub, cur, now>>
    /\ UNCHANGED <<mountVars, extVars>>

----------------------------------------------------------------------------
\* the goroutines that call Mount and Unmount, and the one that logs
Callers == {"c1", "c2"}
Logging == "lg"
\* the goroutines that log or call Sync in SpecWriter
Loggers == {"lg", "lg2"}

NoMountCall == [op |-> "", ch |-> 0, sent |-> FALSE, synced |-> FALSE]

\* no LoggerWriter was constructed: the callers of Spec, SpecInit and
\* SpecMount see the writer only through output and dirty
NoWriter == [kind |-> "none"]
NoRet    == [op |-> "", n |-> 0, err |-> "", openerr |-> FALSE,
             bysize |-> FALSE, newdate |-> FALSE, hung |-> FALSE,
             total |-> 0, writes |-> 0]

RotIdle ==
    /\ lw = NoWriter
    /\ files = <<>>
    /\ rnow = 0
    /\ rhist = <<>>
    /\ rret = NoRet

NoLevel == [l |-> 0, text |-> "", names |-> <<>>, err |-> "", op |-> "",
            from |-> 0, was |-> 0]

NoEntry == [Keys |-> <<>>, Vals |-> <<>>, Message |-> "", Level |-> 0,
            Time |-> "", Buffer |-> "", written |-> FALSE]

NoCombine == [hs1 |-> <<>>, hs2 |-> <<>>, ret |-> <<>>]

ExtIdle == RotIdle /\ lvl = NoLevel /\ fmt = NoEntry /\ hc = NoCombine

\* NewLoggerStdDataJSON leaves done nil and starts no task
MountIdle ==
    /\ mu = ""
    /\ done = 0
    /\ chans = 0
    /\ closed = {}
    /\ pc = [p \in Callers \cup Loggers |-> "idle"]
    /\ call = [c \in Callers |-> NoMountCall]
    /\ task = <<>>
    /\ mounted = 0
    /\ crash = ""

\* NewLoggerInit: the mutex free, Data empty, no drain; and no emission call
\* made by a goroutine yet
NoDrain == [mu |-> "", Data |-> <<>>, n |-> 0, calls |-> 0,
            ent |-> [g \in Callers \cup Loggers |-> 0],
            target |-> "", rng |-> <<>>, i |-> 0,
            replayed |-> <<>>, over |-> {}]
NoLines == [n |-> 0, k |-> [g \in Loggers |-> 0], who |-> <<>>,
            before |-> <<>>, ret |-> {}, log |-> <<>>]

ConcIdle == ib = NoDrain /\ wl = NoLines

\* NewLoggerStd(config) and NewLoggerInit(), before any call.  Level is the
\* zero value of LoggerStdConfig; the caller sets other thresholds with
\* SetLevel.
InitAPI ==
    /\ config \in [Level : {LoggerDebug}, FileLine : BOOLEAN]
    /\ logger = NewLoggerStd(PoolNew(config))
    /\ initlog = NewLoggerStd(InitNew)
    /\ sub = <<>>
    /\ cur = <<>>
    /\ pool = EmptyBag
    /\ output = <<>>
    /\ dirty = FALSE
    /\ Data = <<>>
    /\ now = 1
    /\ ops = 0
    /\ handed = <<>>
    /\ lastCall = NoCall
    /\ panicked = ""

Init == InitAPI /\ MountIdle /\ ConcIdle /\ ExtIdle

\* one caller of the direct-write logger
Next ==
    \/ SetLevelCall("json", LevelInputs)
    \/ WithFieldCall("json", FieldInputs)
    \/ WithFieldsCall("json", BatchInputs)
    \/ EmitCall("json", LoggerDebug..LoggerFatal, EmitInputs)
    \/ SyncCall("json")

Spec == Init /\ [][Next]_vars

\* what the caller of the buffering logger passes: a field, a time override;
\* more keys than values, a control key, matching keys and values; two
\* severities below the third; no message or a message; and the thresholds
\* the direct-write logger is given before the drain
InitFieldInputs  == { <<"a", StrV("x")>>, <<"time", TimeV(1)>> }
InitBatchInputs  ==
    { << <<"a", "b">>, <<IntV(1)>> >>,
      << <<"depth">>, <<IntV(1)>> >>,
      << <<"a", "b">>, <<IntV(1), IntV(2)>> >> }
InitSeverities   == {LoggerDebug, LoggerWarning, LoggerFatal}
InitEmitInputs   ==
    { [f |-> FALSE, format |-> "", args |-> <<>>],
      [f |-> FALSE, format |-> "", args |-> <<"x", "y">>] }
InitTargetLevels == {LoggerWarning, LoggerFatal + 1}

\* one caller of the buffering logger, which is drained into the
\* direct-write logger
NextInit ==
    \/ SetLevelCall("json", InitTargetLevels)
    \/ WithFieldCall("init", InitFieldInputs)
    \/ WithFieldsCall("init", InitBatchInputs)
    \/ EmitCall("init", InitSeverities, InitEmitInputs)
    \/ UnmountCall
    \/ Tick

SpecInit == Init /\ [][NextInit]_vars


----------------------------------------------------------------------------
(* Mount, Unmount and the periodic task of the direct-write backend.       *)
(* Every Lock, every access to data.done and every channel operation is a  *)
(* step of its own; the task reads and writes data.done without the mutex. *)

\* a Lock that does not wait for the holder
Lock_NoWait(p) == mu' = p

Lock(p)  == mu = "" /\ mu' = p
Unlock   == mu' = ""

\* LoggerStd.Mount is called: "data.Lock()" is next
JSONMountCall(c) ==
    /\ crash = ""
    /\ pc[c] = "idle"
    /\ mounted < MaxMounts
    /\ mounted' = mounted + 1
    /\ pc' = [pc EXCEPT ![c] = "m_lock"]
    /\ call' = [call EXCEPT ![c] = [NoMountCall EXCEPT !.op = "Mount"]]
    /\ UNCHANGED <<mu, done, chans, closed, task, crash>>
    /\ UNCHANGED <<apiVars, extVars>>

\* Mount: "data.Lock()"
JSONMountLock(c) ==
    /\ crash = ""
    /\ pc[c] = "m_lock"
    /\ Lock(c)
    /\ pc' = [pc EXCEPT ![c] = "m_make"]
    /\ UNCHANGED <<done, chans, closed, call, task, mounted, crash>>
    /\ UNCHANGED <<apiVars, extVars>>

\* Mount: "if data.done == nil { data.done = make(chan struct{}) }"
JSONMountMake(c) ==
    /\ crash = ""
    /\ pc[c] = "m_make"
    /\ IF done = 0
       THEN done' = chans + 1 /\ chans' = chans + 1
       ELSE UNCHANGED <<done, chans>>
    /\ pc' = [pc EXCEPT ![c] = "m_go"]
    /\ UNCHANGED <<mu, closed, call, task, mounted, crash>>
    /\ UNCHANGED <<apiVars, extVars>>

\* Mount: "go func() { ticker := time.NewTicker(...)", then the deferred Unlock
JSONMountGo(c) ==
    /\ crash = ""
    /\ pc[c] = "m_go"
    /\ task' = Append(task, [pc |-> "loop", ch |-> 0])
    /\ Unlock
    /\ pc' = [pc EXCEPT ![c] = "idle"]
    /\ call' = [call EXCEPT ![c] = NoMountCall]
    /\ UNCHANGED <<done, chans, closed, mounted, crash>>
    /\ UNCHANGED <<apiVars, extVars>>

\* LoggerStd.Unmount is called on the direct-write backend
JSONUnmountCall(c) ==
    /\ crash = ""
    /\ pc[c] = "idle"
    /\ pc' = [pc EXCEPT ![c] = "u_lock"]
    /\ call' = [call EXCEPT ![c] = [NoMountCall EXCEPT !.op = "Unmount"]]
    /\ UNCHANGED <<mu, done, chans, closed, task, mounted, crash>>
    /\ UNCHANGED <<apiVars, extVars>>

\* Unmount: "data.Lock()"
JSONUnmountLock(c) ==
    /\ crash = ""
    /\ pc[c] = "u_lock"
    /\ Lock(c)
    /\ pc' = [pc EXCEPT ![c] = "u_test"]
    /\ UNCHANGED <<done, chans, closed, call, task, mounted, crash>>
    /\ UNCHANGED <<apiVars, extVars>>

\* the stop signal is sent whatever data.done is
mustSignal_Always(d) == TRUE

\* Unmount: "data.done != nil"
mustSignal(d) == d # 0

\* Unmount: "if data.done != nil {": the send statement evaluates data.done
JSONUnmountTest(c) ==
    /\ crash = ""
    /\ pc[c] = "u_test"
    /\ IF mustSignal(done)
       THEN /\ pc' = [pc EXCEPT ![c] = "u_send"]
            /\ call' = [call EXCEPT ![c].ch = done]
       ELSE /\ pc' = [pc EXCEPT ![c] = "u_sync"]
            /\ call' = call
    /\ UNCHANGED <<mu, done, chans, closed, task, mounted, crash>>
    /\ UNCHANGED <<apiVars, extVars>>

\* "data.done <- struct{}{}" meets "case <-data.done:" of task i: the channel
\* is unbuffered, so both move together; the task goes on to "ticker.Stop()"
JSONUnmountSend(c, i) ==
    /\ crash = ""
    /\ pc[c] = "u_send"
    /\ i \in 1..Len(task)
    /\ task[i].pc = "select"
    /\ task[i].ch = call[c].ch
    /\ call[c].ch # 0
    /\ call[c].ch \notin closed
    /\ pc' = [pc EXCEPT ![c] = "u_sync"]
    /\ call' = [call EXCEPT ![c].sent = TRUE]
    /\ task' = [task EXCEPT ![i].pc = "close"]
    /\ UNCHANGED <<mu, done, chans, closed, mounted, crash>>
    /\ UNCHANGED <<apiVars, extVars>>

\* "data.done <- struct{}{}" on a channel that is or gets closed panics
JSONUnmountSendClosed(c) ==
    /\ crash = ""
    /\ pc[c] = "u_send"
    /\ call[c].ch \in closed
    /\ crash' = "send on closed channel"
    /\ UNCHANGED <<mu, done, chans, closed, pc, call, task, mounted>>
    /\ UNCHANGED <<apiVars, extVars>>

\* Unmount: "data.LoggerWriter.Sync()"
JSONUnmountSync(c) ==
    /\ crash = ""
    /\ pc[c] = "u_sync"
    /\ pc' = [pc EXCEPT ![c] = "u_unlock"]
    /\ call' = [call EXCEPT ![c].synced = TRUE]
    /\ UNCHANGED <<mu, done, chans, closed, task, mounted, crash>>
    /\ dirty' = FALSE
    /\ UNCHANGED <<apiRest, extVars>>

\* Unmount: the deferred "data.Unlock()", and the return
JSONUnmountReturn(c) ==
    /\ crash = ""
    /\ pc[c] = "u_unlock"
    /\ Unlock
    /\ pc' = [pc EXCEPT ![c] = "idle"]
    /\ call' = [call EXCEPT ![c] = NoMountCall]
    /\ UNCHANGED <<done, chans, closed, task, mounted, crash>>
    /\ UNCHANGED <<apiVars, extVars>>

\* the task enters "select": the operand data.done of its receive case is
\* evaluated
TaskSelect(i) ==
    /\ crash = ""
    /\ i \in 1..Len(task)
    /\ task[i].pc = "loop"
    /\ task' = [task EXCEPT ![i].pc = "select", ![i].ch = done]
    /\ UNCHANGED <<mu, done, chans, closed, pc, call, mounted, crash>>
    /\ UNCHANGED <<apiVars, extVars>>

\* "case <-data.done:" on a closed channel: the receive succeeds at once
TaskReceiveClosed(i) ==
    /\ crash = ""
    /\ i \in 1..Len(task)
    /\ task[i].pc = "select"
    /\ task[i].ch \in closed
    /\ task' = [task EXCEPT ![i].pc = "close"]
    /\ UNCHANGED <<mu, done, chans, closed, pc, call, mounted, crash>>
    /\ UNCHANGED <<apiVars, extVars>>

\* "case <-ticker.C:": "data.Sync()" is next, and starts with "data.Lock()"
TaskTick(i) ==
    /\ crash = ""
    /\ i \in 1..Len(task)
    /\ task[i].pc = "select"
    /\ task' = [task EXCEPT ![i].pc = "lock"]
    /\ UNCHANGED <<mu, done, chans, closed, pc, call, mounted, crash>>
    /\ UNCHANGED <<apiVars, extVars>>

\* the goroutine name of task i as a holder of the mutex
TaskName(i) == "task" \o ToString(i)

\* loggerStdDataJSON.Sync in the task: "data.Lock()"
TaskSyncLock(i) ==
    /\ crash = ""
    /\ i \in 1..Len(task)
    /\ task[i].pc = "lock"
    /\ Lock(TaskName(i))
    /\ task' = [task EXCEPT ![i].pc = "sync"]
    /\ UNCHANGED <<done, chans, closed, pc, call, mounted, crash>>
    /\ UNCHANGED <<apiVars, extVars>>

\* loggerStdDataJSON.Sync in the task: "data.LoggerWriter.Sync()" and the
\* deferred Unlock; the loop goes round
TaskSync(i) ==
    /\ crash = ""
    /\ i \in 1..Len(task)
    /\ task[i].pc = "sync"
    /\ Unlock
    /\ task' = [task EXCEPT ![i].pc = "loop"]
    /\ UNCHANGED <<done, chans, closed, pc, call, mounted, crash>>
    /\ dirty' = FALSE
    /\ UNCHANGED <<apiRest, extVars>>

\* "ticker.Stop(); close(data.done)": data.done is read again
TaskClose(i) ==
    /\ crash = ""
    /\ i \in 1..Len(task)
    /\ task[i].pc = "close"
    /\ IF done = 0
       THEN /\ crash' = "close of nil channel"
            /\ UNCHANGED <<closed, task>>
       ELSE IF done \in closed
       THEN /\ crash' = "close of closed channel"
            /\ UNCHANGED <<closed, task>>
       ELSE /\ closed' = closed \cup {done}
            /\ task' = [task EXCEPT ![i].pc = "clear"]
            /\ crash' = crash
    /\ UNCHANGED <<mu, done, chans, pc, call, mounted>>
    /\ UNCHANGED <<apiVars, extVars>>

\* "data.done = nil; return"
TaskClear(i) ==
    /\ crash = ""
    /\ i \in 1..Len(task)
    /\ task[i].pc = "clear"
    /\ done' = 0
    /\ task' = [task EXCEPT ![i].pc = "exit"]
    /\ UNCHANGED <<mu, chans, closed, pc, call, mounted, crash>>
    /\ UNCHANGED <<apiVars, extVars>>

\* a log call reaches loggerStdDataJSON.PutLogger: "data.Lock()"
PutLoggerLock(p) ==
    /\ crash = ""
    /\ pc[p] = "idle"
    /\ Lock(p)
    /\ pc' = [pc EXCEPT ![p] = "write"]
    /\ UNCHANGED <<done, chans, closed, call, task, mounted, crash>>
    /\ UNCHANGED <<apiVars, extVars>>

\* PutLogger: "data.Write(entry.Buffer); data.Unlock()"
PutLoggerWrite(p) ==
    /\ crash = ""
    /\ pc[p] = "write"
    /\ Unlock
    /\ pc' = [pc EXCEPT ![p] = "idle"]
    /\ UNCHANGED <<done, chans, closed, call, task, mounted, crash>>
    /\ dirty' = TRUE
    /\ UNCHANGED <<apiRest, extVars>>

\* LoggerStd.Sync is called: loggerStdDataJSON.Sync starts with "data.Lock()"
JSONSyncLock(p) ==
    /\ crash = ""
    /\ pc[p] = "idle"
    /\ Lock(p)
    /\ pc' = [pc EXCEPT ![p] = "sync"]
    /\ UNCHANGED <<done, chans, closed, call, task, mounted, crash>>
    /\ UNCHANGED <<apiVars, extVars>>

\* loggerStdDataJSON.Sync: "data.LoggerWriter.Sync()" and the deferred Unlock
JSONSyncRun(p) ==
    /\ crash = ""
    /\ pc[p] = "sync"
    /\ Unlock
    /\ pc' = [pc EXCEPT ![p] = "idle"]
    /\ UNCHANGED <<done, chans, closed, call, task, mounted, crash>>
    /\ dirty' = FALSE
    /\ UNCHANGED <<apiRest, extVars>>

\* the steps of caller c inside a Mount or Unmount call
CallerRun(c) ==
    \/ JSONMountLock(c) \/ JSONMountMake(c) \/ JSONMountGo(c)
    \/ JSONUnmountLock(c) \/ JSONUnmountTest(c)
    \/ (\E i \in 1..MaxMounts : JSONUnmountSend(c, i))
    \/ JSONUnmountSendClosed(c)
    \/ JSONUnmountSync(c) \/ JSONUnmountReturn(c)

\* the steps of task i
TaskRun(i) ==
    \/ TaskSelect(i) \/ TaskReceiveClosed(i) \/ TaskTick(i)
    \/ (\E c \in Callers : JSONUnmountSend(c, i))
    \/ TaskSyncLock(i) \/ TaskSync(i) \/ TaskClose(i) \/ TaskClear(i)

NextMount ==
    \/ \E c \in Callers : JSONMountCall(c)
    \/ \E c \in Callers : JSONMountLock(c)
    \/ \E c \in Callers : JSONMountMake(c)
    \/ \E c \in Callers : JSONMountGo(c)
    \/ \E c \in Callers : JSONUnmountCall(c)
    \/ \E c \in Callers : JSONUnmountLock(c)
    \/ \E c \in Callers : JSONUnmountTest(c)
    \/ \E c \in Callers, i \in 1..MaxMounts : JSONUnmountSend(c, i)
    \/ \E c \in Callers : JSONUnmountSendClosed(c)
    \/ \E c \in Callers : JSONUnmountSync(c)
    \/ \E c \in Callers : JSONUnmountReturn(c)
    \/ \E i \in 1..MaxMounts : TaskSelect(i)
    \/ \E i \in 1..MaxMounts : TaskReceiveClosed(i)
    \/ \E i \in 1..MaxMounts : TaskTick(i)
    \/ \E i \in 1..MaxMounts : TaskSyncLock(i)
    \/ \E i \in 1..MaxMounts : TaskSync(i)
    \/ \E i \in 1..MaxMounts : TaskClose(i)
    \/ \E i \in 1..MaxMounts : TaskClear(i)
    \/ PutLoggerLock(Logging)
    \/ PutLoggerWrite(Logging)

\* the capture mode plays no part in Mount and Unmount
InitMount == Init /\ ~config.FileLine

SpecMount == InitMount /\ [][NextMount]_vars

\* One goroutine that mounts and unmounts, the tasks it starts, and two
\* goroutines that log and call Sync
NextWriter ==
    \/ JSONMountCall("c1") \/ JSONMountLock("c1")
    \/ JSONMountMake("c1") \/ JSONMountGo("c1")
    \/ JSONUnmountCall("c1") \/ JSONUnmountLock("c1")
    \/ JSONUnmountTest("c1")
    \/ \E i \in 1..MaxMounts : JSONUnmountSend("c1", i)
    \/ JSONUnmountSendClosed("c1")
    \/ JSONUnmountSync("c1") \/ JSONUnmountReturn("c1")
    \/ \E i \in 1..MaxMounts : TaskSelect(i)
    \/ \E i \in 1..MaxMounts : TaskReceiveClosed(i)
    \/ \E i \in 1..MaxMounts : TaskTick(i)
    \/ \E i \in 1..MaxMounts : TaskSyncLock(i)
    \/ \E i \in 1..MaxMounts : TaskSync(i)
    \/ \E i \in 1..MaxMounts : TaskClose(i)
    \/ \E i \in 1..MaxMounts : TaskClear(i)
    \/ \E p \in Loggers : PutLoggerLock(p)
    \/ \E p \in Loggers : PutLoggerWrite(p)
    \/ \E p \in Loggers : JSONSyncLock(p)
    \/ \E p \in Loggers : JSONSyncRun(p)

SpecWriter == InitMount /\ [][NextWriter]_vars

\* The Go scheduler runs every goroutine that can run, and sync.Mutex hands
\* the lock to a goroutine that has waited long (starvation mode), so a
\* goroutine inside a call that can take a step infinitely often takes it.
\* Whether a caller starts a call at all is up to the caller.
MountFairness ==
    /\ \A c \in Callers : SF_vars(CallerRun(c))
    /\ \A i \in 1..MaxMounts : SF_vars(TaskRun(i))
    /\ SF_vars(PutLoggerWrite(Logging))

FairMount == SpecMount /\ MountFairness

----------------------------------------------------------------------------
(* Properties                                                              *)

\* the message an emission call with arguments in materialises
messageOf(in) ==
    IF in.f THEN Sprintf(in.format, in.args) ELSE dropLast(Sprintln(in.args))

\* the key/value pairs of an entry that has a value for every key
pairsOf(e) == [i \in 1..Len(e.Keys) |-> <<e.Keys[i], e.Vals[i]>>]

isSuffix(a, b) ==
    Len(a) <= Len(b) /\ a = SubSeq(b, Len(b) - Len(a) + 1, Len(b))

emitted == lastCall.op = "emit" /\ Len(lastCall.recv) = 1 /\ Len(handed) = 1

\* C1: an emission call of severity S on a direct-write handle whose
\* threshold T is one of Debug..Fatal writes no line iff S < T, and otherwise
\* exactly one line, whose level member is the name of S.
C1_SuppressedIffBelowThreshold ==
    (/\ emitted
     /\ lastCall.recv[1].data = "json"
     /\ lastCall.recv[1].Logger
     /\ lastCall.recv[1].Level \in LoggerDebug..LoggerFatal)
    => IF lastCall.sev < lastCall.recv[1].Level
       THEN Len(output) = 0
       ELSE /\ Len(output) = 1
            /\ output[1].level = loggerlevels[lastCall.sev + 1]

\* C2: Fatal and Fatalf are never suppressed: whatever threshold the
\* receiver carries, the entry handed to the backend has Level 4, the
\* materialised message and the receiver's keys and values.
C2_FatalNeverSuppressed ==
    (emitted /\ lastCall.sev = LoggerFatal)
    => /\ handed[1].Level = 4
       /\ handed[1].Message = messageOf(lastCall.in)
       /\ handed[1].Keys = lastCall.recv[1].Keys
       /\ IF lastCall.recv[1].Logger
          THEN Len(lastCall.recv[1].Keys) # 0
                  => isSuffix(lastCall.recv[1].Vals, handed[1].Vals)
          ELSE handed[1].Vals = lastCall.recv[1].Vals

\* C2 witness: Fatalf on an entry that carries a field and a threshold that
\* SetLevel put above Fatal: the line is written, at level FATAL
C2_Witness ==
    /\ emitted
    /\ lastCall.sev = LoggerFatal
    /\ lastCall.in.f
    /\ lastCall.recv[1].Level > LoggerFatal
    /\ Len(lastCall.recv[1].Keys) > 0
    /\ handed[1].Message = "m=x"
    /\ Len(output) = 1
    /\ output[1].level = "FATAL"
    /\ output[1].message = "m=x"

captureKeys == {"name", "file", "line", "stack"}
captureValue(k) ==
    CASE k = "name" -> nameV [] k = "file" -> fileV [] k = "line" -> lineV
      [] OTHER -> stackV

\* C6: on the direct-write backend an emitted entry with more keys than
\* values is written without a panic as one line holding exactly its first
\* len(Vals) key/value pairs, then only capture fields carrying their own
\* values, then the diagnostic field loggererr; in every capture mode.
C6_KeysTrimmedToValues ==
    (/\ emitted
     /\ handed[1].data = "json"
     /\ Len(handed[1].Keys) > Len(handed[1].Vals))
    => /\ panicked = ""
       /\ Len(output) = 1
       /\ LET f  == output[1].fields
              nv == Len(handed[1].Vals)
          IN  /\ Len(f) > nv
              /\ \A i \in 1..nv : f[i] = <<handed[1].Keys[i], handed[1].Vals[i]>>
              /\ f[Len(f)] = <<"loggererr", StrV(loggererrText)>>
              /\ \A i \in (nv + 1)..(Len(f) - 1) :
                    /\ f[i][1] \in captureKeys
                    /\ f[i][2] = captureValue(f[i][1])

\* C8: every entry in the direct-write backend's pool has an empty Message
\* and zero-length Keys, Vals and Buffer.
C8_PooledEntriesAreEmpty ==
    \A e \in BagToSet(pool) :
        e.Message = "" /\ e.Keys = <<>> /\ e.Vals = <<>> /\ e.Buffer = <<>>

drained == lastCall.op = "Unmount"

\* C3: a drain into a direct-write logger writes one line per buffered
\* entry, in the buffer's order, each with the entry's severity, message and
\* fields in their order.  Stated for the drains every other rule favours:
\* the target's threshold is Debug, and each buffered entry has a message and
\* as many values as keys.
C3_ReplayKeepsEveryEntry ==
    (/\ drained
     /\ logger.Level = LoggerDebug
     /\ \A i \in 1..Len(lastCall.data) :
            /\ lastCall.data[i].Message # ""
            /\ Len(lastCall.data[i].Keys) = Len(lastCall.data[i].Vals))
    =>  /\ Len(output) = Len(lastCall.data)
        /\ \A i \in 1..Len(output) :
            LET d == lastCall.data[i]
            IN  /\ output[i].level = loggerlevels[d.Level + 1]
                /\ output[i].message = d.Message
                /\ Len(d.Keys) = Len(d.Vals)
                /\ output[i].fields = pairsOf(d)

\* C4: an entry whose Time was overridden before it was emitted to the
\* buffering backend is buffered with that time.
C4_OverriddenTimeKept ==
    (emitted /\ handed[1].data = "init" /\ handed[1].Time # 0)
    => /\ Len(Data) > 0
       /\ Data[Len(Data)].Time = handed[1].Time

\* C7: a drain never panics, whatever the numbers of keys and values of the
\* buffered entries.
C7_ReplayNeverPanics == drained => panicked = ""

\* C5: a drain that completes leaves the buffer empty and the target
\* flushed; a drain writes at most one line per buffered entry, and a drain
\* that starts with an empty buffer writes nothing.
C5_DrainEmptiesBuffer ==
    drained =>
        /\ panicked = "" => (Data = <<>> /\ ~dirty)
        /\ Len(output) <= Len(lastCall.data)
        /\ lastCall.data = <<>> => output = <<>>

\* C5 witness: a drain that replayed a buffered entry as a line, completed,
\* and left the buffer empty and the target flushed
C5_Witness ==
    /\ drained
    /\ panicked = ""
    /\ Len(lastCall.data) > 0
    /\ Len(output) = Len(lastCall.data)
    /\ Data = <<>>
    /\ ~dirty

\* C9: once Mount has started the periodic task, Unmount and the task never
\* block each other for good: it never happens that an Unmount call waits in
\* its send on done while holding the mutex and every task still running
\* waits for that mutex in its ticker-driven Sync.
C9_UnmountAndTaskNeverDeadlock ==
    \A c \in Callers :
        ~ (/\ crash = ""
           /\ pc[c] = "u_send"
           /\ mu = c
           /\ \E i \in 1..Len(task) : task[i].pc = "lock"
           /\ \A i \in 1..Len(task) : task[i].pc \in {"lock", "exit"})

UnmountSteps == {"u_lock", "u_test", "u_send", "u_sync", "u_unlock"}

\* C10: as long as no Mount call was ever started, an Unmount call never
\* reaches the send on done, has flushed the writer and sent nothing when it
\* is about to release the mutex and return, and always returns.
C10_UnmountWithoutMountReturns ==
    /\ [](mounted = 0 =>
            \A c \in Callers :
                /\ pc[c] # "u_send"
                /\ pc[c] = "u_unlock" =>
                      (~call[c].sent /\ call[c].synced /\ ~dirty))
    /\ \A c \in Callers :
          (pc[c] \in UnmountSteps /\ mounted = 0)
              ~> (pc[c] = "idle" \/ mounted > 0)

\* C10 witness: with no Mount call started, an Unmount call is about to
\* return, having flushed the writer and sent nothing, while the other
\* caller's Unmount call waits for the mutex
C10_Witness ==
    /\ mounted = 0
    /\ crash = ""
    /\ task = <<>>
    /\ \E c \in Callers :
        /\ pc[c] = "u_unlock"
        /\ call[c].op = "Unmount"
        /\ call[c].synced
        /\ ~call[c].sent
        /\ \E d \in Callers \ {c} : pc[d] = "u_lock"

\* the goroutines that are executing a call of the LoggerWriter: Write in
\* PutLogger, Sync in loggerStdDataJSON.Sync and in Unmount
inWriter ==
    { p \in Callers \cup Loggers : pc[p] \in {"write", "sync", "u_sync"} }
    \cup { TaskName(i) : i \in { j \in 1..Len(task) : task[j].pc = "sync" } }

\* C11: every goroutine that is inside the LoggerWriter (Write of a log
\* call, the explicit Sync, the Sync of a task, the Sync of Unmount) holds the
\* backend's mutex, so at most one goroutine is inside the writer.
C11_WriterCallsHoldMutex ==
    /\ \A p \in inWriter : mu = p
    /\ Cardinality(inWriter) <= 1

\* C11 witness: one goroutine writes a line while the other logging goroutine
\* has not got the mutex, a task waits for it in its Sync and Unmount waits
\* for it
C11_Witness ==
    /\ \E p \in Loggers : pc[p] = "write" /\ mu = p
    /\ \E i \in 1..Len(task) : task[i].pc = "lock"
    /\ pc["c1"] = "u_lock"
    /\ Cardinality(inWriter) = 1

\* C12: a line written by an emission call on a handle holds only values of
\* that call: every field value of the line is one of the handle's base
\* values or a value the backend captured for this call.  (A run in which one
\* goroutine's call returns before the next goroutine's call starts is one of
\* the schedules of concurrent emission.)
C12_LineHoldsOnlyOwnValues ==
    (/\ emitted
     /\ lastCall.recv[1].data = "json"
     /\ lastCall.recv[1].Logger
     /\ Len(output) = 1)
    => \A i \in 1..Len(output[1].fields) :
          \/ \E j \in 1..Len(lastCall.recv[1].Vals) :
                output[1].fields[i][2] = lastCall.recv[1].Vals[j]
          \/ output[1].fields[i][2] \in {nameV, fileV, lineV, stackV}

----------------------------------------------------------------------------
(***************************************************************************)
(* The file writers: NewLoggerWriterFile, NewLoggerWriterRotate,           *)
(* syncWriterRotate.Write, Sync and rotateFile.                            *)
(*                                                                         *)
(* A path template is [index, date]: whether it holds the token "index"    *)
(* and whether it holds a date token (the hour token HH).  A file name is  *)
(* [date, index]: the hour the date tokens resolved to (0 without a date   *)
(* token) and the number put in place of "index" (-1 without the token).   *)
(* The clock counts half hours, so that an instant on the hour and one     *)
(* after it are told apart.  Sizes are uint64 values far below 2^64; they  *)
(* are kept as <<hi, lo>> with value hi * 2^20 + lo, because the limit     *)
(* 0xffffffffff does not fit a 32-bit integer.  Records are shorter than   *)
(* bufio's buffer, so a record stays in the buffer until Flush.            *)
(***************************************************************************)
MaxWrites == 2      \* Write calls per run
MaxLen    == 2      \* longest record, in bytes
MaxTicks  == 3      \* last instant of the clock, in half hours
MaxProbe  == 2      \* the open failure hits one of the first MaxProbe opens

U64(n)     == <<0, n>>
u64add(a, n) == <<a[1] + (a[2] + n) \div (2^20), (a[2] + n) % (2^20)>>
u64ge(a, b)  == a[1] > b[1] \/ (a[1] = b[1] /\ a[2] >= b[2])

\* 0xffffffffff, the MaxSize of a writer that rotates by date only
maxsizeDateOnly == <<2^20 - 1, 2^20 - 1>>

Templates == [index : BOOLEAN, date : BOOLEAN]

\* formatDateName: the date tokens replaced by the current date and hour
formatDateName(name, t) == IF name.date THEN t \div 2 ELSE 0

\* strings.Replace(formatDateName(w.name), "index", fmt.Sprint(i), -1)
fileName(name, t, i) ==
    [date |-> formatDateName(name, t), index |-> IF name.index THEN i ELSE -1]

\* the first instant of the next hour
getNextHour(t) == (t \div 2 + 1) * 2

\* file.Stat().Size(); os.O_CREATE makes a missing file, of size 0
statSize(fs, f) == IF f \in DOMAIN fs THEN fs[f] ELSE U64(0)

NoFile == [date |-> -1, index |-> -1]

\* a Flush that drops the buffered bytes
Flush_Dropped(w, fs) == fs

\* bufio.Writer.Flush of the writer's buffer into its file
Flush(w, fs) ==
    IF w.file = NoFile THEN fs
    ELSE [g \in DOMAIN fs \cup {w.file} |->
             IF g = w.file THEN u64add(statSize(fs, g), w.buf)
             ELSE fs[g]]

\* the record kept of a file made current: the size Stat found, the index
\* the probe started at, whether every candidate before it was full, the
\* names the callbacks were called with, the buffered bytes flushed to the
\* file it replaced, the records and bytes it received since, whether it
\* received a record when its size had reached MaxSize, and what it holds,
\* counting the bytes still in the buffer
adoption(name, fs, stat, start, low, buf) ==
    [name |-> name, stat |-> stat, start |-> start, low |-> low,
     called |-> <<name>>, flushed |-> buf, recs |-> 0, bytes |-> 0,
     over |-> FALSE, size |-> statSize(fs, name)]

\* rotateFile.  failAt = k makes the k-th os.OpenFile of this call fail
\* (0: none fails).  The result holds the writer, the directory, the error
\* returned, whether the loop never ends, the number of opens that did not
\* fail, and the file made current if any.
RECURSIVE rotateLoop(_, _, _, _, _)
rotateLoop(w, fs, t, failAt, k) ==
    LET name == fileName(w.name, t, w.nextindex)
        size == statSize(fs, name)
        made == [g \in DOMAIN fs \cup {name} |-> statSize(fs, g)]
        w1   == [w EXCEPT !.nextindex = @ + 1, !.nbytes = size]
        start == w.nextindex - (k - 1)
        low  == \A j \in start..(w.nextindex - 1) :
                    u64ge(statSize(fs, fileName(w.name, t, j)), w.MaxSize)
    IN  IF failAt = k
        THEN [w |-> w, files |-> fs, err |-> "open", hung |-> FALSE,
              opens |-> k - 1, adopted |-> <<>>]
        ELSE IF ~u64ge(size, w.MaxSize)
        THEN [w |-> [w1 EXCEPT !.buf = 0, !.file = name, !.link = name],
              files |-> Flush(w, made), err |-> "", hung |-> FALSE,
              opens |-> k,
              adopted |-> <<adoption(name, Flush(w, made), size, start,
                                     low, w.buf)>>]
        ELSE IF ~w.name.index
        THEN \* the next candidate has the same name and the same size
             [w |-> w1, files |-> made, err |-> "", hung |-> TRUE,
              opens |-> k, adopted |-> <<>>]
        ELSE rotateLoop(w1, made, t, failAt, k + 1)

rotateFile(w, fs, t, failAt) == rotateLoop(w, fs, t, failAt, 1)

\* a step of Write that does not call rotateFile
noRotate(w, fs) ==
    [w |-> w, files |-> fs, err |-> "", hung |-> FALSE, opens |-> 0,
     adopted |-> <<>>]

\* NewLoggerWriterFile(name, std) for a name that is not empty; it takes no
\* callbacks
NewLoggerWriterFile(name, fs, t, fail) ==
    LET f == fileName(name, t, 0)
    IN  IF fail
        THEN [w |-> NoWriter, files |-> fs, err |-> "open", hung |-> FALSE,
              opens |-> 0, adopted |-> <<>>]
        ELSE [w |-> [kind |-> "file", name |-> name, MaxSize |-> U64(0),
                     nextindex |-> 0, nexttime |-> 0, nbytes |-> U64(0),
                     buf |-> 0, file |-> f, link |-> NoFile],
              files |-> [g \in DOMAIN fs \cup {f} |-> statSize(fs, g)],
              err |-> "", hung |-> FALSE, opens |-> 1,
              adopted |-> <<[adoption(f, fs, statSize(fs, f), 0, TRUE, 0)
                                EXCEPT !.called = <<>>]>>]

\* NewLoggerWriterRotate(name, std, maxsize, newLoggerLinkName(link)) for a
\* link that is not empty: link is the file the symbolic link refers to
NewLoggerWriterRotate(name, maxsize, fs, t, failAt) ==
    LET max0 == IF ~name.index THEN U64(0) ELSE maxsize
    IN  IF max0 = U64(0) /\ ~name.date
        THEN NewLoggerWriterFile(name, fs, t, failAt = 1)
        ELSE rotateFile([kind |-> "rotate", name |-> name,
                         MaxSize |-> IF max0 = U64(0) THEN maxsizeDateOnly
                                     ELSE max0,
                         nextindex |-> 0, nexttime |-> getNextHour(t),
                         nbytes |-> U64(0), buf |-> 0, file |-> NoFile,
                         link |-> NoFile],
                        fs, t, failAt)

\* syncWriterRotate.Write(p) with len(p) = n.  failAt = k makes the k-th
\* os.OpenFile of the call fail.
rotateWrite(w, fs, t, n, failAt) ==
    LET bysize == u64ge(u64add(w.nbytes, n), w.MaxSize)
        r1 == IF bysize THEN rotateFile(w, fs, t, failAt)
              ELSE noRotate(w, fs)
        late == t > r1.w.nexttime
        w2 == IF late THEN [r1.w EXCEPT !.nexttime = getNextHour(t)] ELSE r1.w
        bydate == late /\ fileName(w2.name, t, w2.nextindex - 1) # w2.file
        left == IF failAt > r1.opens THEN failAt - r1.opens ELSE 0
        r2 == IF r1.hung THEN r1
              ELSE IF bydate
              THEN rotateFile([w2 EXCEPT !.nextindex = 0], r1.files, t, left)
              ELSE noRotate(w2, r1.files)
    IN  [w |-> IF r2.hung THEN r2.w
               ELSE [r2.w EXCEPT !.buf = @ + n, !.nbytes = u64add(@, n)],
         files |-> r2.files,
         n |-> IF r2.hung THEN 0 ELSE n,
         err |-> "",
         openerr |-> r1.err # "" \/ r2.err # "",
         bysize |-> bysize,
         newdate |-> t > w.nexttime /\ formatDateName(w.name, t) # w.file.date,
         hung |-> r2.hung,
         adopted |-> IF r1.hung THEN r1.adopted
                     ELSE r1.adopted \o r2.adopted]

\* bufio.Writer.Write of syncWriterFile
fileWrite(w, fs, n) ==
    [w |-> [w EXCEPT !.buf = @ + n], files |-> fs, n |-> n, err |-> "",
     openerr |-> FALSE, bysize |-> FALSE, newdate |-> FALSE, hung |-> FALSE,
     adopted |-> <<>>]

\* the record of the current file after a Write of n bytes
recorded(h, max, n) ==
    IF h = <<>> THEN h
    ELSE [h EXCEPT ![Len(h)] =
            [@ EXCEPT !.recs = @ + 1,
                      !.bytes = @ + n,
                      !.over = @ \/ u64ge(h[Len(h)].size, max),
                      !.size = u64add(@, n)]]

\* sizes a file can have before the writer is constructed, and the size
\* thresholds a caller passes
PreSizes == { U64(0), U64(1), U64(3),
              <<2^20 - 1, 2^20 - 3>>, maxsizeDateOnly }
MaxSizes == { U64(0), U64(2), U64(3) }

\* the log directory before the program starts: empty, or holding one file
\* the templates can resolve to
InitRotate ==
    /\ InitAPI /\ ~config.FileLine
    /\ MountIdle
    /\ ConcIdle
    /\ lw = NoWriter
    /\ rnow = 0
    /\ rhist = <<>>
    /\ rret = NoRet
    /\ lvl = NoLevel
    /\ fmt = NoEntry
    /\ hc = NoCombine
    /\ \E d \in 0..1, i \in -1..1, s \in PreSizes :
          files = [g \in {[date |-> d, index |-> i]} |-> s]

RotateNew ==
    /\ lw = NoWriter
    /\ rret.op = ""
    /\ \E name \in Templates, maxsize \in MaxSizes, failAt \in 0..1 :
        LET r == NewLoggerWriterRotate(name, maxsize, files, rnow, failAt)
        IN  /\ lw' = r.w
            /\ files' = r.files
            /\ rhist' = rhist \o r.adopted
            /\ rret' = [NoRet EXCEPT !.op = "New", !.err = r.err,
                                     !.openerr = r.err # "",
                                     !.hung = r.hung]
    /\ UNCHANGED rnow
    /\ UNCHANGED <<apiVars, mountVars, lvl, fmt, hc, concVars>>

\* Write on the writer a successful constructor returned
RotateWrite ==
    /\ lw.kind \in {"rotate", "file"}
    /\ rret.err = "" /\ ~rret.hung
    /\ rret.writes < MaxWrites
    /\ \E n \in 1..MaxLen, failAt \in 0..MaxProbe :
        LET r == IF lw.kind = "rotate"
                 THEN rotateWrite(lw, files, rnow, n, failAt)
                 ELSE fileWrite(lw, files, n)
        IN  /\ lw.kind = "file" => failAt = 0
            /\ lw' = r.w
            /\ files' = r.files
            /\ rhist' = IF r.hung THEN rhist \o r.adopted
                        ELSE recorded(rhist \o r.adopted, r.w.MaxSize, n)
            /\ rret' = [op |-> "Write", n |-> r.n, err |-> r.err,
                        openerr |-> r.openerr, bysize |-> r.bysize,
                        newdate |-> r.newdate, hung |-> r.hung,
                        total |-> rret.total + r.n,
                        writes |-> rret.writes + 1]
    /\ UNCHANGED rnow
    /\ UNCHANGED <<apiVars, mountVars, lvl, fmt, hc, concVars>>

\* syncWriterRotate.Sync and syncWriterFile.Sync
RotateSync ==
    /\ lw.kind \in {"rotate", "file"}
    /\ rret.err = "" /\ ~rret.hung
    /\ lw.buf > 0
    /\ files' = Flush(lw, files)
    /\ lw' = [lw EXCEPT !.buf = 0]
    /\ rret' = [rret EXCEPT !.op = "Sync", !.openerr = FALSE,
                            !.bysize = FALSE, !.newdate = FALSE]
    /\ UNCHANGED <<rnow, rhist>>
    /\ UNCHANGED <<apiVars, mountVars, lvl, fmt, hc, concVars>>

\* time passes
RotateTick ==
    /\ rnow < MaxTicks
    /\ ~rret.hung
    /\ rnow' = rnow + 1
    /\ UNCHANGED <<lw, files, rhist, rret>>
    /\ UNCHANGED <<apiVars, mountVars, lvl, fmt, hc, concVars>>

NextRotate ==
    \/ RotateNew
    \/ RotateWrite
    \/ RotateSync
    \/ RotateTick

SpecRotate == InitRotate /\ [][NextRotate]_vars

----------------------------------------------------------------------------
\* C13: with a path template holding index and the size threshold MaxSize,
\* once the Write calls have written more than MaxSize bytes more than one
\* distinct file has been current; no file received a record when its size
\* had already reached MaxSize; and every file that stopped being current is
\* smaller than MaxSize unless the one record it received took it past it.
C13_SizeRotationBoundsEveryFile ==
    (lw.kind = "rotate" /\ lw.name.index) =>
        /\ u64ge(U64(rret.total), u64add(lw.MaxSize, 1))
              => Cardinality({ rhist[i].name : i \in 1..Len(rhist) }) > 1
        /\ \A i \in 1..Len(rhist) : ~rhist[i].over
        /\ \A i \in 1..(Len(rhist) - 1) :
              ~u64ge(rhist[i].size, lw.MaxSize) \/ rhist[i].recs = 1

\* C14: a Write call in which an open failed during a rotation returns the
\* open error.
C14_WriteReturnsOpenError ==
    (rret.op = "Write" /\ rret.openerr) => rret.err = "open"

\* C15: a writer whose template holds no index never rotates because of
\* size: no Write takes the size branch or loops in it, a template without
\* date tokens has one file for its whole life, and a file is replaced only
\* by a file with another date-resolved name.
C15_NoIndexNeverRotatesBySize ==
    (lw.kind \in {"rotate", "file"} /\ ~lw.name.index) =>
        /\ ~rret.bysize
        /\ ~rret.hung
        /\ ~lw.name.date => Len(rhist) = 1
        /\ \A i \in 1..(Len(rhist) - 1) : rhist[i].name # rhist[i + 1].name

----------------------------------------------------------------------------
(***************************************************************************)
(* LoggerLevel as text: String, MarshalText, UnmarshalText.  The table     *)
(* DefaultLoggerLevelString and the error ErrLoggerLevelUnmarshalText are  *)
(* declared in a file of the package that is not part of the sources at    *)
(* hand; they are taken from the specification: five fixed upper-case      *)
(* names, the warning name with or without the inherited misspelling, and  *)
(* an "unrecognized level" error.                                          *)
(***************************************************************************)
DefaultLoggerLevelString ==
    { <<"DEBUG", "INFO", w, "ERROR", "FATAL">> : w \in {"WARNING", "WARIRNG"} }

ErrLoggerLevelUnmarshalText == "unrecognized level"

\* position of the one-character string c in the string abc, 0 if absent
indexByte(abc, c) ==
    IF \E i \in 1..Len(abc) : SubSeq(abc, i, i) = c
    THEN CHOOSE i \in 1..Len(abc) : SubSeq(abc, i, i) = c
    ELSE 0

\* s with every letter of the alphabet src replaced by the letter of dst at
\* the same position
RECURSIVE mapLetters(_, _, _)
mapLetters(s, src, dst) ==
    IF Len(s) = 0 THEN ""
    ELSE LET c == SubSeq(s, 1, 1)
             i == indexByte(src, c)
         IN  (IF i = 0 THEN c ELSE SubSeq(dst, i, i))
             \o mapLetters(SubSeq(s, 2, Len(s)), src, dst)

\* strings.ToUpper, on ASCII text
ToUpper(s) ==
    mapLetters(s, "abcdefghijklmnopqrstuvwxyz", "ABCDEFGHIJKLMNOPQRSTUVWXYZ")

\* the value of a string of decimal digits, -1 if it holds another byte
RECURSIVE digitsValue(_, _)
digitsValue(s, acc) ==
    IF Len(s) = 0 THEN acc
    ELSE LET d == indexByte("0123456789", SubSeq(s, 1, 1))
         IN  IF d = 0 THEN -1
             ELSE digitsValue(SubSeq(s, 2, Len(s)), acc * 10 + (d - 1))

Atoi_NoSyntaxError(s) ==
    LET signed == Len(s) > 0 /\ SubSeq(s, 1, 1) \in {"+", "-"}
        body   == IF signed THEN SubSeq(s, 2, Len(s)) ELSE s
        v      == digitsValue(body, 0)
    IN  [err |-> "",
         n |-> IF v = -1 THEN 0
               ELSE IF signed /\ SubSeq(s, 1, 1) = "-" THEN 0 - v ELSE v]

\* strconv.Atoi, on texts short enough not to overflow: an optional sign,
\* then one or more decimal digits
Atoi(s) ==
    LET signed == Len(s) > 0 /\ SubSeq(s, 1, 1) \in {"+", "-"}
        body   == IF signed THEN SubSeq(s, 2, Len(s)) ELSE s
        v      == digitsValue(body, 0)
    IN  IF Len(body) = 0 \/ v = -1 THEN [err |-> "syntax", n |-> 0]
        ELSE [err |-> "",
              n |-> IF signed /\ SubSeq(s, 1, 1) = "-" THEN 0 - v ELSE v]

\* LoggerLevel.MarshalText, with names the table DefaultLoggerLevelString
MarshalText(l, names) == names[l + 1]

UnmarshalText_CaseSensitive(l, text, names) ==
    LET str == text
        a   == Atoi(str)
    IN  IF \E i \in 1..Len(names) : names[i] = str
        THEN [l |-> (CHOOSE i \in 1..Len(names) : names[i] = str) - 1,
              err |-> ""]
        ELSE IF a.err = "" /\ a.n < 5 /\ a.n > -1
        THEN [l |-> a.n, err |-> ""]
        ELSE [l |-> l, err |-> ErrLoggerLevelUnmarshalText]

\* LoggerLevel.UnmarshalText on the target *l = l
UnmarshalText(l, text, names) ==
    LET str == ToUpper(text)
        a   == Atoi(str)
    IN  IF \E i \in 1..Len(names) : names[i] = str
        THEN [l |-> (CHOOSE i \in 1..Len(names) : names[i] = str) - 1,
              err |-> ""]
        ELSE IF a.err = "" /\ a.n < 5 /\ a.n > -1
        THEN [l |-> a.n, err |-> ""]
        ELSE [l |-> l, err |-> ErrLoggerLevelUnmarshalText]

\* the texts a caller decodes: the names in several letter cases, numbers in
\* and out of range, signed and padded numbers, and other text
LevelTexts ==
    { "debug", "Debug", "INFO", "iNfO", "warning", "Warning", "WARIRNG",
      "warirng", "error", "ERROR", "Fatal", "fatal",
      "0", "1", "2", "3", "4", "5", "9", "10", "-1", "+3", "03", "-0",
      "", " 1", "1 ", "1.0", "0x1", "warn", "INF", "infos", "DEBUG ", "-",
      "four", "4a" }

\* a severity l, a text to decode, and one of the tables
InitLevel ==
    /\ InitAPI /\ ~config.FileLine
    /\ MountIdle
    /\ ConcIdle
    /\ RotIdle
    /\ fmt = NoEntry
    /\ hc = NoCombine
    /\ lvl \in [l : LoggerDebug..LoggerFatal, text : LevelTexts,
                names : DefaultLoggerLevelString, err : {""}, op : {""},
                from : {0}, was : {0}]

\* text, _ := l.MarshalText()
LevelMarshalText ==
    /\ lvl.op = ""
    /\ lvl' = [lvl EXCEPT !.text = MarshalText(lvl.l, lvl.names),
                          !.from = lvl.l, !.op = "Marshal"]
    /\ UNCHANGED <<apiVars, mountVars, rotVars, fmt, hc, concVars>>

\* var t LoggerLevel = target; err := t.UnmarshalText(text)
LevelUnmarshalText ==
    /\ lvl.op \in {"", "Marshal"}
    /\ \E target \in LoggerDebug..LoggerFatal :
        LET r == UnmarshalText(target, lvl.text, lvl.names)
        IN  lvl' = [lvl EXCEPT !.l = r.l, !.err = r.err, !.was = target,
                               !.op = IF lvl.op = "Marshal" THEN "RoundTrip"
                                      ELSE "Unmarshal"]
    /\ UNCHANGED <<apiVars, mountVars, rotVars, fmt, hc, concVars>>

NextLevel ==
    \/ LevelMarshalText
    \/ LevelUnmarshalText

SpecLevel == InitLevel /\ [][NextLevel]_vars

----------------------------------------------------------------------------
\* text is one of the names of the table, compared without regard to case
isLevelName(text, names) ==
    \E i \in 1..Len(names) :
        mapLetters(text, "ABCDEFGHIJKLMNOPQRSTUVWXYZ",
                   "abcdefghijklmnopqrstuvwxyz")
        = mapLetters(names[i], "ABCDEFGHIJKLMNOPQRSTUVWXYZ",
                     "abcdefghijklmnopqrstuvwxyz")

\* C16: encoding any of the five severities and decoding the text yields the
\* severity; decoding "0".."4" yields 0..4; a name is decoded to its
\* severity in any letter case.
C16_LevelTextRoundTrip ==
    /\ lvl.op = "RoundTrip" => (lvl.err = "" /\ lvl.l = lvl.from)
    /\ lvl.op = "Unmarshal" =>
        /\ \A n \in 0..4 :
              lvl.text = SubSeq("01234", n + 1, n + 1)
                 => (lvl.err = "" /\ lvl.l = n)
        /\ \A i \in 1..Len(lvl.names) :
              mapLetters(lvl.text, "ABCDEFGHIJKLMNOPQRSTUVWXYZ",
                         "abcdefghijklmnopqrstuvwxyz")
              = mapLetters(lvl.names[i], "ABCDEFGHIJKLMNOPQRSTUVWXYZ",
                           "abcdefghijklmnopqrstuvwxyz")
                 => (lvl.err = "" /\ lvl.l = i - 1)

\* C16 witness: the warning severity came back from its text into a target
\* that held another severity
C16_Witness ==
    /\ lvl.op = "RoundTrip"
    /\ lvl.from = LoggerWarning
    /\ lvl.was = LoggerFatal
    /\ lvl.l = LoggerWarning
    /\ lvl.err = ""

\* text denotes a whole number from 0 to 4: an optional sign, zeros, and at
\* most one digit from 1 to 4
isNumber0to4(text) ==
    \E sign \in {"", "+", "-"}, zeros \in {"", "0", "00"},
       d \in {"", "1", "2", "3", "4"} :
        /\ zeros \o d # ""
        /\ sign = "-" => d = ""
        /\ text = sign \o zeros \o d

\* C17: decoding a text that is neither a level name in some letter case nor
\* a number from 0 to 4 fails with the unrecognized-level error and leaves
\* the target as it was.
C17_OtherTextIsRejected ==
    (/\ lvl.op \in {"Unmarshal", "RoundTrip"}
     /\ ~isLevelName(lvl.text, lvl.names)
     /\ ~isNumber0to4(lvl.text))
    => (lvl.err = ErrLoggerLevelUnmarshalText /\ lvl.l = lvl.was)

\* C17 witness: "5" was decoded into a target holding Error, which failed
C17_Witness ==
    /\ lvl.op = "Unmarshal"
    /\ lvl.text = "5"
    /\ lvl.was = LoggerError
    /\ lvl.l = LoggerError
    /\ lvl.err = ErrLoggerLevelUnmarshalText

----------------------------------------------------------------------------
(***************************************************************************)
(* The bytes of a line: loggerEntryStdFormat and the value encoder, on     *)
(* ASCII text.  A field value is [kind, s, n, err]: its dynamic kind, the  *)
(* text it holds or its MarshalJSON, MarshalText, String or Error method   *)
(* returns, the number it holds, and the error its marshal method returns  *)
(* ("" for nil).  The time of an entry is the text time.Format returned.   *)
(***************************************************************************)

\* tryAddRuneSelf for a byte below utf8.RuneSelf: the bytes appended.  Of the
\* control bytes without a short escape the form feed stands for all.
tryAddRuneSelf(b) ==
    IF b \in {"\\", "\""} THEN "\\" \o b
    ELSE IF b = "\n" THEN "\\n"
    ELSE IF b = "\r" THEN "\\r"
    ELSE IF b = "\t" THEN "\\t"
    ELSE IF b = "\f" THEN "\\u000c"
    ELSE b

\* loggerFormatWriteString and loggerFormatWriteBytes: the bytes appended
RECURSIVE loggerFormatWriteString(_)
loggerFormatWriteString(s) ==
    IF Len(s) = 0 THEN ""
    ELSE tryAddRuneSelf(SubSeq(s, 1, 1))
         \o loggerFormatWriteString(SubSeq(s, 2, Len(s)))

\* the kinds of a nil value that is not an untyped nil
NilKinds == {"nilptr", "nilmap", "nilslice", "nilfunc", "nilchan"}

loggerFormatWriteReflectFace_ErrorAbandoned(v) ==
    IF v.kind \in NilKinds THEN [ok |-> TRUE, out |-> "null"]
    ELSE IF v.kind = "invalid"
    THEN [ok |-> TRUE, out |-> "\"<Invalid Value>\""]
    ELSE IF "json" \in v.is
    THEN [ok |-> TRUE, out |-> IF v.err = "" THEN v.s ELSE ""]
    ELSE IF "text" \in v.is
    THEN [ok |-> TRUE,
          out |-> IF v.err = "" THEN "\"" \o loggerFormatWriteString(v.s) \o "\""
                  ELSE ""]
    ELSE IF "stringer" \in v.is
    THEN [ok |-> TRUE, out |-> "\"" \o loggerFormatWriteString(v.str) \o "\""]
    ELSE IF "error" \in v.is
    THEN [ok |-> TRUE, out |-> "\"" \o loggerFormatWriteString(v.msg) \o "\""]
    ELSE [ok |-> FALSE, out |-> ""]

\* the type switch with the case fmt.Stringer before the Marshaler cases
loggerFormatWriteReflectFace_StringerFirst(v) ==
    IF v.kind \in NilKinds THEN [ok |-> TRUE, out |-> "null"]
    ELSE IF v.kind = "invalid"
    THEN [ok |-> TRUE, out |-> "\"<Invalid Value>\""]
    ELSE IF "stringer" \in v.is
    THEN [ok |-> TRUE, out |-> "\"" \o loggerFormatWriteString(v.str) \o "\""]
    ELSE IF "json" \in v.is
    THEN [ok |-> TRUE,
          out |-> IF v.err = "" THEN v.s
                  ELSE "\"" \o loggerFormatWriteString(v.err) \o "\""]
    ELSE IF "text" \in v.is
    THEN [ok |-> TRUE,
          out |-> "\"" \o (IF v.err = "" THEN loggerFormatWriteString(v.s)
                           ELSE loggerFormatWriteString(v.err)) \o "\""]
    ELSE IF "error" \in v.is
    THEN [ok |-> TRUE, out |-> "\"" \o loggerFormatWriteString(v.msg) \o "\""]
    ELSE [ok |-> FALSE, out |-> ""]

\* loggerFormatWriteReflectFace: whether the value was written by one of its
\* own methods, and the bytes appended.  A value is its kind, the set "is" of
\* the interfaces its type implements (json.Marshaler, encoding.TextMarshaler,
\* fmt.Stringer, error), what its Marshal method returns (s, err), what
\* String returns (str) and what Error returns (msg); reflect.ValueOf of an
\* untyped nil has the kind Invalid.
loggerFormatWriteReflectFace(v) ==
    IF v.kind \in NilKinds THEN [ok |-> TRUE, out |-> "null"]
    ELSE IF v.kind = "invalid"
    THEN [ok |-> TRUE, out |-> "\"<Invalid Value>\""]
    ELSE IF "json" \in v.is
    THEN [ok |-> TRUE,
          out |-> IF v.err = "" THEN v.s
                  ELSE "\"" \o loggerFormatWriteString(v.err) \o "\""]
    ELSE IF "text" \in v.is
    THEN [ok |-> TRUE,
          out |-> "\"" \o (IF v.err = "" THEN loggerFormatWriteString(v.s)
                           ELSE loggerFormatWriteString(v.err)) \o "\""]
    ELSE IF "stringer" \in v.is
    THEN [ok |-> TRUE, out |-> "\"" \o loggerFormatWriteString(v.str) \o "\""]
    ELSE IF "error" \in v.is
    THEN [ok |-> TRUE, out |-> "\"" \o loggerFormatWriteString(v.msg) \o "\""]
    ELSE [ok |-> FALSE, out |-> ""]

\* loggerFormatWriteValue and loggerFormatWriteReflect, for the kinds Bool,
\* Int and String
loggerFormatWriteValue(v) ==
    LET face == loggerFormatWriteReflectFace(v)
    IN  IF face.ok THEN face.out
        ELSE IF v.kind = "bool" THEN (IF v.n = 1 THEN "true" ELSE "false")
        ELSE IF v.kind = "int" THEN ToString(v.n)
        ELSE IF v.kind = "string"
        THEN "\"" \o loggerFormatWriteString(v.s) \o "\""
        ELSE ""

\* the loop of loggerEntryStdFormat over entry.Keys, from the i-th key on
RECURSIVE writeFields(_, _)
writeFields(entry, i) ==
    IF i > Len(entry.Keys) THEN ""
    ELSE "," \o "\"" \o entry.Keys[i] \o "\"" \o ":"
         \o loggerFormatWriteValue(entry.Vals[i])
         \o writeFields(entry, i + 1)

loggerEntryStdFormatBytes_MessageFirst(entry) ==
    "{\"time\":\"" \o entry.Time \o "\",\"level\":\""
    \o loggerlevels[entry.Level + 1] \o "\""
    \o (IF Len(entry.Message) > 0
        THEN ",\"message\":\"" \o loggerFormatWriteString(entry.Message)
             \o "\""
        ELSE "")
    \o writeFields(entry, 1)
    \o "}\n"

\* loggerEntryStdFormat: entry.Buffer for an entry whose time is formatted
loggerEntryStdFormatBytes(entry) ==
    "{\"time\":\"" \o entry.Time \o "\",\"level\":\""
    \o loggerlevels[entry.Level + 1] \o "\""
    \o writeFields(entry, 1)
    \o (IF Len(entry.Message) > 0
        THEN ",\"message\":\"" \o loggerFormatWriteString(entry.Message)
             \o "\"}\n"
        ELSE "}\n")

\* the keys and the values a caller attaches
FormatKeys == { "a", "k\nk" }
FormatVals ==
    { [kind |-> "string", s |-> "x\ny", n |-> 0, err |-> "", is |-> {},
       str |-> "", msg |-> ""],
      [kind |-> "int", s |-> "", n |-> -7, err |-> "", is |-> {},
       str |-> "", msg |-> ""],
      [kind |-> "bool", s |-> "", n |-> 1, err |-> "", is |-> {},
       str |-> "", msg |-> ""],
      [kind |-> "nilptr", s |-> "", n |-> 0, err |-> "", is |-> {},
       str |-> "", msg |-> ""],
      [kind |-> "struct", s |-> "{\"a\":1}", n |-> 0, err |-> "",
       is |-> {"json"}, str |-> "", msg |-> ""],
      [kind |-> "struct", s |-> "[1,\n2]", n |-> 0, err |-> "",
       is |-> {"json"}, str |-> "", msg |-> ""],
      [kind |-> "struct", s |-> "", n |-> 0, err |-> "bad \"j\"\n",
       is |-> {"json"}, str |-> "", msg |-> ""],
      [kind |-> "struct", s |-> "t\\x", n |-> 0, err |-> "",
       is |-> {"text"}, str |-> "", msg |-> ""],
      [kind |-> "struct", s |-> "", n |-> 0, err |-> "bad\tt",
       is |-> {"text"}, str |-> "", msg |-> ""],
      [kind |-> "struct", s |-> "", n |-> 0, err |-> "",
       is |-> {"stringer"}, str |-> "s\fq", msg |-> ""] }

\* an enabled entry without fields in PutLogger, its time formatted
InitFormat ==
    /\ InitAPI /\ ~config.FileLine
    /\ MountIdle
    /\ ConcIdle
    /\ RotIdle
    /\ lvl = NoLevel
    /\ hc = NoCombine
    /\ fmt \in [Keys : {<<>>}, Vals : {<<>>},
                Message : {"", "m", "a\nb \"c\""},
                Level : {LoggerDebug, LoggerWarning},
                Time : {"2006-01-02 15:04:05"},
                Buffer : {""}, written : {FALSE}]

\* WithField(key, value) on the entry
FormatWithField ==
    /\ ~fmt.written
    /\ Len(fmt.Keys) < MaxFields
    /\ \E k \in FormatKeys, v \in FormatVals :
          fmt' = [fmt EXCEPT !.Keys = Append(@, k), !.Vals = Append(@, v)]
    /\ UNCHANGED <<apiVars, mountVars, rotVars, lvl, hc, concVars>>

\* PutLogger: loggerEntryStdFormat, then Writer.Write(entry.Buffer)
FormatPutLogger ==
    /\ ~fmt.written
    /\ fmt' = [fmt EXCEPT !.Buffer = loggerEntryStdFormatBytes(fmt),
                          !.written = TRUE]
    /\ UNCHANGED <<apiVars, mountVars, rotVars, lvl, hc, concVars>>

NextFormat ==
    \/ FormatWithField
    \/ FormatPutLogger

SpecFormat == InitFormat /\ [][NextFormat]_vars

----------------------------------------------------------------------------
\* the text of the members of the fields from the i-th on, each with the
\* comma before it
RECURSIVE fieldMembers(_, _)
fieldMembers(entry, i) ==
    IF i > Len(entry.Keys) THEN <<>>
    ELSE << ",\"" \o entry.Keys[i] \o "\":"
            \o loggerFormatWriteValue(entry.Vals[i]) >>
         \o fieldMembers(entry, i + 1)

RECURSIVE concat(_)
concat(ss) == IF ss = <<>> THEN "" ELSE Head(ss) \o concat(Tail(ss))

\* s begins with p / s ends with p
hasPrefix(s, p) == Len(p) <= Len(s) /\ SubSeq(s, 1, Len(p)) = p
hasSuffix(s, p) ==
    Len(p) <= Len(s) /\ SubSeq(s, Len(s) - Len(p) + 1, Len(s)) = p

\* C18: a written line is the time member, the level member, one member per
\* attached key in the order the keys were attached (a repeated key has a
\* member for each time it was attached), then the message member; the
\* message member and its comma are there iff the message is not empty.
C18_MembersInOrder ==
    fmt.written =>
        LET head == "{\"time\":\"" \o fmt.Time \o "\",\"level\":\""
                    \o loggerlevels[fmt.Level + 1] \o "\""
            mid  == concat(fieldMembers(fmt, 1))
            msg  == ",\"message\":\"" \o loggerFormatWriteString(fmt.Message)
                    \o "\""
        IN  /\ Len(fieldMembers(fmt, 1)) = Len(fmt.Keys)
            /\ hasPrefix(fmt.Buffer, head \o mid)
            /\ fmt.Message # "" => fmt.Buffer = head \o mid \o msg \o "}\n"
            /\ fmt.Message = "" => fmt.Buffer = head \o mid \o "}\n"

\* C18 witness: a line with the same key attached twice, with different
\* values, and a message
C18_Witness ==
    /\ fmt.written
    /\ Len(fmt.Keys) = 2
    /\ fmt.Keys[1] = fmt.Keys[2]
    /\ fmt.Vals[1] # fmt.Vals[2]
    /\ fmt.Message = "m"

\* C19: the buffer written for one emission ends with a newline and holds no
\* other newline byte.
C19_OneLinePerWrite ==
    fmt.written =>
        /\ hasSuffix(fmt.Buffer, "\n")
        /\ \A i \in 1..(Len(fmt.Buffer) - 1) : SubSeq(fmt.Buffer, i, i) # "\n"

\* C20: where MarshalJSON or MarshalText of a field value returned an error,
\* the member holds the error's message as a quoted, escaped string, and the
\* line still has every later field, the message and the terminator.
C20_MarshalErrorWrittenInline ==
    fmt.written =>
        \A i \in 1..Len(fmt.Keys) :
            (fmt.Vals[i].is # {} /\ fmt.Vals[i].err # "")
            => LET before == "{\"time\":\"" \o fmt.Time \o "\",\"level\":\""
                             \o loggerlevels[fmt.Level + 1] \o "\""
                             \o concat(SubSeq(fieldMembers(fmt, 1), 1, i - 1))
                   member == ",\"" \o fmt.Keys[i] \o "\":\""
                             \o loggerFormatWriteString(fmt.Vals[i].err)
                             \o "\""
                   after  == concat(fieldMembers(fmt, i + 1))
                             \o (IF fmt.Message = "" THEN ""
                                 ELSE ",\"message\":\""
                                      \o loggerFormatWriteString(fmt.Message)
                                      \o "\"")
                             \o "}\n"
               IN  fmt.Buffer = before \o member \o after

\* C20 witness: the first of two fields failed in MarshalJSON, the second is
\* an integer, and the line has a message
C20_Witness ==
    /\ fmt.written
    /\ Len(fmt.Keys) = 2
    /\ fmt.Vals[1].is = {"json"} /\ fmt.Vals[1].err # ""
    /\ fmt.Vals[2].kind = "int"
    /\ fmt.Message = "m"
    /\ hasSuffix(fmt.Buffer, ":-7,\"message\":\"m\"}\n")

----------------------------------------------------------------------------
(***************************************************************************)
(* NewHandlerFuncsCombine (handler.go).  A HandlerFuncs is the sequence of *)
(* its handlers; a result also tells the array it is a slice of: the       *)
(* array of hs1, the array of hs2, or a new one.                           *)
(***************************************************************************)
\* NewHandlerFuncsCombine(hs1, hs2)
NewHandlerFuncsCombine(hs1, hs2) ==
    IF Len(hs1) = 0 THEN [hs |-> hs2, array |-> "hs2", panic |-> ""]
    ELSE IF Len(hs2) = 0 THEN [hs |-> hs1, array |-> "hs1", panic |-> ""]
    ELSE IF Len(hs1) + Len(hs2) >= 127
    THEN [hs |-> <<>>, array |-> "",
          panic |-> "HandlerFuncsCombine: too many handlers"]
    ELSE [hs |-> hs1 \o hs2, array |-> "new", panic |-> ""]

\* the lengths of the lists a caller combines: empty, short, and around the
\* documented maximum and the maximum of the code
CombineLens == {0, 1, 2, 31, 32, 62, 63, 64, 100, 126}

\* two lists of distinct handlers
InitCombine ==
    /\ InitAPI /\ ~config.FileLine
    /\ MountIdle
    /\ ConcIdle
    /\ RotIdle
    /\ lvl = NoLevel
    /\ fmt = NoEntry
    /\ \E n1 \in CombineLens, n2 \in CombineLens :
          hc = [hs1 |-> [i \in 1..n1 |-> i],
                hs2 |-> [i \in 1..n2 |-> 1000 + i],
                ret |-> <<>>]

\* hs := NewHandlerFuncsCombine(hs1, hs2)
CombineCall ==
    /\ hc.ret = <<>>
    /\ hc' = [hc EXCEPT !.ret = <<NewHandlerFuncsCombine(hc.hs1, hc.hs2)>>]
    /\ UNCHANGED <<apiVars, mountVars, rotVars, lvl, fmt, concVars>>

SpecCombine == InitCombine /\ [][CombineCall]_vars

\* C21: combining two non-empty lists panics when their combined length is
\* above 63, and otherwise returns a new list: the first list followed by
\* the second.
C21_CombinePanicsAbove63 ==
    (hc.ret # <<>> /\ Len(hc.hs1) > 0 /\ Len(hc.hs2) > 0) =>
        IF Len(hc.hs1) + Len(hc.hs2) > 63
        THEN hc.ret[1].panic # ""
        ELSE /\ hc.ret[1].panic = ""
             /\ hc.ret[1].array = "new"
             /\ hc.ret[1].hs = hc.hs1 \o hc.hs2

----------------------------------------------------------------------------
\* C22: every file a rotation made current had, when it was adopted, a size
\* below MaxSize; every candidate from the index the probe started at up to
\* it was full; the first probe of a writer starts at index 0; and no file
\* received a record when its size had already reached MaxSize.
C22_AdoptedBelowThresholdLowestIndex ==
    lw.kind = "rotate" =>
        /\ \A i \in 1..Len(rhist) :
              /\ ~u64ge(rhist[i].stat, lw.MaxSize)
              /\ rhist[i].low
              /\ ~rhist[i].over
        /\ Len(rhist) > 0 => rhist[1].start = 0

\* C23: after a Write that found the hour boundary passed and the
\* date-resolved name changed, and in which no open failed, the current file
\* has the new date-resolved name and its probe started at index 0.
C23_NewDateStartsAtIndex0 ==
    (/\ lw.kind = "rotate"
     /\ rret.op = "Write"
     /\ rret.newdate
     /\ ~rret.openerr
     /\ ~rret.hung)
    => /\ rhist[Len(rhist)].name = lw.file
       /\ lw.file.date = formatDateName(lw.name, rnow)
       /\ rhist[Len(rhist)].start = 0

\* C24: every adoption of a constructed writer called the callback once with
\* the adopted file's name, and the file the symbolic link refers to is the
\* current file.
C24_LinkRefersToCurrentFile ==
    lw.kind # "none" =>
        /\ \A i \in 1..Len(rhist) : rhist[i].called = <<rhist[i].name>>
        /\ lw.link = lw.file

\* the bytes the adoptions of file g in h received through the writer
RECURSIVE writtenTo(_, _)
writtenTo(h, g) ==
    IF h = <<>> THEN 0
    ELSE (IF h[1].name = g THEN h[1].bytes ELSE 0) + writtenTo(Tail(h), g)

\* C25: every file the writer made current holds, counting the bytes still
\* buffered for the current file, exactly the size it had when first adopted
\* plus the bytes written through the writer while it was current: a
\* rotation flushes the buffer to the file that was current, loses none of
\* it and moves none of it to the new file.
C25_RotationFlushesToPreviousFile ==
    \A i \in 1..Len(rhist) :
        (\A j \in 1..(i - 1) : rhist[j].name # rhist[i].name) =>
            u64add(statSize(files, rhist[i].name),
                   IF rhist[i].name = lw.file THEN lw.buf ELSE 0)
                = u64add(rhist[i].stat, writtenTo(rhist, rhist[i].name))

\* a rotation replaced a file with buffered bytes by another file
C25_Witness ==
    /\ C25_RotationFlushesToPreviousFile
    /\ \E i \in 2..Len(rhist) :
          /\ rhist[i].flushed > 0
          /\ rhist[i].name # rhist[i - 1].name
          /\ rhist[i - 1].bytes > 0

\* C26: the byte counter of a constructed rotating writer equals the size of
\* its current file, counting the bytes still buffered for it.
C26_ByteCounterIsFileSize ==
    (lw.kind = "rotate" /\ lw.file # NoFile /\ ~rret.hung) =>
        lw.nbytes = u64add(statSize(files, lw.file), lw.buf)

\* C27: no call of the constructor or of Write on the writer it returned
\* leaves the probe loop of rotateFile running for ever.
C27_ProbeLoopTerminates ==
    rret.op \in {"New", "Write"} => ~rret.hung

----------------------------------------------------------------------------

\* the call was made on a handle and returned
onHandle ==
    /\ lastCall.op \in {"WithField", "WithFields", "emit"}
    /\ lastCall.recv # <<>> /\ lastCall.recv[1].Logger
    /\ panicked = ""

\* the entry WithField or WithFields returned to the caller
returned ==
    IF lastCall.kv = <<"logger", BoolV(TRUE)>> THEN sub[1] ELSE cur[1]

\* C28: a WithField, WithFields or emission call on a handle leaves the
\* handle as it was, and the entry it works on has the handle's Level and
\* Depth and the handle's keys and values, in order, before the fields the
\* call attaches.
C28_HandleUnchangedCloneStartsAsCopy ==
    onHandle =>
        LET h == lastCall.recv[1]
        IN  /\ \/ h = logger
               \/ sub = <<h>>
               \/ lastCall.kv = <<"logger", BoolV(TRUE)>>
            /\ lastCall.op = "WithFields" =>
                  /\ returned.Level = h.Level /\ returned.Depth = h.Depth
                  /\ returned.Keys = h.Keys \o lastCall.kv[1]
                  /\ returned.Vals = h.Vals \o lastCall.kv[2]
            /\ lastCall.op = "WithField" =>
                  /\ returned.Level = h.Level
                  /\ lastCall.kv[1] # "depth" => returned.Depth = h.Depth
                  /\ Len(returned.Keys) >= Len(h.Keys)
                  /\ SubSeq(returned.Keys, 1, Len(h.Keys)) = h.Keys
                  /\ Len(returned.Vals) >= Len(h.Vals)
                  /\ SubSeq(returned.Vals, 1, Len(h.Vals)) = h.Vals
            /\ lastCall.op = "emit" =>
                  /\ handed[1].Depth = h.Depth
                  /\ h.Level <= lastCall.sev =>
                        handed[1].Keys = h.Keys /\ handed[1].Vals = h.Vals

----------------------------------------------------------------------------
(* The control fields of WithField: a caller that passes each control key  *)
(* with a value of the type WithField acts on and with one of another      *)
(* type.                                                                   *)

ControlInputs ==
    { <<"a", StrV("x")>>,
      <<"time", TimeV(1)>>, <<"time", StrV("x")>>,
      <<"depth", IntV(1)>>, <<"depth", IntV(-4)>>, <<"depth", IntV(253)>>,
      <<"depth", StrV("enable")>>, <<"depth", StrV("stack")>>,
      <<"depth", StrV("disable")>>, <<"depth", StrV("x")>>,
      <<"depth", BoolV(TRUE)>>,
      <<"logger", BoolV(TRUE)>>, <<"logger", BoolV(FALSE)>>,
      <<"context", CtxV(1)>>, <<"context", CtxV(2)>> }

\* a key WithFields stores without a value
ControlBatchInputs == { << <<"context">>, <<>> >> }

ControlEmitInputs == { [f |-> FALSE, format |-> "", args |-> <<"x">>] }

NextField ==
    \/ WithFieldCall("json", ControlInputs)
    \/ WithFieldsCall("json", ControlBatchInputs)
    \/ EmitCall("json", {LoggerError}, ControlEmitInputs)

SpecField == Init /\ [][NextField]_vars

\* the entry a WithField call that returned was made on, a handle or not
fieldCall == lastCall.op = "WithField" /\ panicked = ""

isControl(kv) ==
    \/ kv[1] = "time" /\ kv[2].t = "time"
    \/ kv[1] = "depth" /\ kv[2].t \in {"int", "string"}
    \/ kv[1] = "logger" /\ kv[2] = BoolV(TRUE)

\* WithField("context", ctx) on an entry that has the key context
isContextUpdate(e, kv) ==
    kv[1] = "context" /\ kv[2].t = "context" /\ contextIndex(e) # 0

\* what the call stored, given what counts as storing nothing: on an entry
\* that is no handle Keys and Vals are as they were, or have the call's key
\* and value appended; on a handle the same holds of the Keys of the clone
storedAsClaimed(nothing) ==
    LET e  == lastCall.recv[1]
        kv == lastCall.kv
    IN  IF nothing
        THEN /\ returned.Keys = e.Keys
             /\ ~e.Logger => returned.Vals = e.Vals
        ELSE /\ returned.Keys = Append(e.Keys, kv[1])
             /\ ~e.Logger => returned.Vals = Append(e.Vals, kv[2])

C30_DepthDeltaKeepsModeBits ==
    (fieldCall /\ lastCall.kv[1] = "depth") =>
        LET d0 == lastCall.recv[1].Depth
            d1 == returned.Depth
        IN  /\ lastCall.kv[2].t = "int" =>
                  /\ d1 \div 256 = d0 \div 256
                  /\ d1 % 256 \in 0..255
            /\ lastCall.kv[2].t = "string" => d1 % 256 = d0 % 256

----------------------------------------------------------------------------

\* the fields the claimed finalize appends in the capture mode of entry e
captureFields(e) ==
    CASE e.Depth \div 256 = 1 ->
            << <<"name", nameV>>, <<"file", fileV>>, <<"line", lineV>> >>
      [] e.Depth \div 256 \in {2, 3} -> << <<"stack", stackV>> >>
      [] OTHER -> <<>>

\* C31: the line of an enabled emission on the direct-write backend holds
\* the caller's keys in order and then exactly the capture fields of the
\* entry's mode, each with its own value: name, file, line for caller
\* location, stack alone for stack capture, nothing when capture is off or
\* was disabled.
C31_CaptureFieldsFollowCallerFields ==
    (emitted /\ handed[1].data = "json" /\ Len(output) = 1) =>
        LET f  == output[1].fields
            nk == Len(handed[1].Keys)
            c  == captureFields(handed[1])
        IN  /\ Len(f) = nk + Len(c)
            /\ \A i \in 1..nk : i <= Len(f) => f[i][1] = handed[1].Keys[i]
            /\ \A i \in 1..Len(c) : nk + i <= Len(f) => f[nk + i] = c[i]

----------------------------------------------------------------------------
(* The value encoder on its own: one value of a named type, with every     *)
(* combination of the four interfaces, or a nil value.                     *)

ValueInputs ==
    [kind : {"string", "int", "bool"}, s : {"b\"x"}, n : {1},
     err : {"", "bad\n"}, is : SUBSET {"json", "text", "stringer", "error"},
     str : {"S\t"}, msg : {"E"}]
    \cup [kind : NilKinds, s : {""}, n : {0}, err : {""},
          is : {{}, {"json", "stringer"}}, str : {"S\t"}, msg : {""}]
    \cup [kind : {"invalid"}, s : {""}, n : {0}, err : {""}, is : {{}},
          str : {""}, msg : {""}]

\* an entry with one field, in loggerEntryStdFormat at the field's value
InitValue ==
    /\ InitAPI /\ ~config.FileLine
    /\ MountIdle
    /\ ConcIdle
    /\ RotIdle
    /\ lvl = NoLevel
    /\ hc = NoCombine
    /\ \E v \in ValueInputs :
          fmt = [NoEntry EXCEPT !.Keys = <<"a">>, !.Vals = <<v>>]

\* loggerFormatWriteValue(entry, entry.Vals[i]): Buffer is what it appended
ValueWrite ==
    /\ ~fmt.written
    /\ fmt' = [fmt EXCEPT !.Buffer = loggerFormatWriteValue(fmt.Vals[1]),
                          !.written = TRUE]
    /\ UNCHANGED <<apiVars, mountVars, rotVars, lvl, hc, concVars>>

SpecValue == InitValue /\ [][ValueWrite]_vars

quoted(s) == "\"" \o loggerFormatWriteString(s) \o "\""

\* C32: a value that is not nil is written by MarshalJSON if its type has
\* it, else by MarshalText, else by String, else by Error, and by its kind
\* only when its type has none of the four.
C32_HighestPriorityCapabilityUsed ==
    (fmt.written /\ Len(fmt.Vals) = 1
        /\ fmt.Vals[1].kind \notin NilKinds \cup {"invalid"}) =>
        LET v == fmt.Vals[1]
        IN  fmt.Buffer =
              IF "json" \in v.is
              THEN (IF v.err = "" THEN v.s ELSE quoted(v.err))
              ELSE IF "text" \in v.is
              THEN (IF v.err = "" THEN quoted(v.s) ELSE quoted(v.err))
              ELSE IF "stringer" \in v.is THEN quoted(v.str)
              ELSE IF "error" \in v.is THEN quoted(v.msg)
              ELSE CASE v.kind = "bool" -> IF v.n = 1 THEN "true" ELSE "false"
                     [] v.kind = "int" -> ToString(v.n)
                     [] v.kind = "string" -> quoted(v.s)

\* a value with all four interfaces was written by MarshalJSON alone
C32_Witness ==
    /\ C32_HighestPriorityCapabilityUsed
    /\ fmt.written /\ Len(fmt.Vals) = 1
    /\ fmt.Vals[1].is = {"json", "text", "stringer", "error"}
    /\ fmt.Vals[1].err = ""
    /\ fmt.Buffer = "b\"x"

\* C33: every nil value is written as null: a nil pointer, map, slice,
\* function or channel, and an untyped nil.
C33_NilRendersNull ==
    (fmt.written /\ Len(fmt.Vals) = 1
        /\ fmt.Vals[1].kind \in NilKinds \cup {"invalid"}) =>
        fmt.Buffer = "null"

----------------------------------------------------------------------------
(* One caller of the direct-write logger while the clock advances.         *)

NextTime ==
    \/ WithFieldCall("json", InitFieldInputs)
    \/ EmitCall("json", InitSeverities, InitEmitInputs)
    \/ Tick

SpecTime == Init /\ [][NextTime]_vars

\* C34: the line of an emission made directly on a handle of the
\* direct-write backend, so with no time field attached, carries the clock
\* reading of the emission.
C34_LineCarriesEmissionTime ==
    [][(/\ ops' = ops + 1
        /\ emitted'
        /\ lastCall'.recv[1].Logger
        /\ handed'[1].data = "json"
        /\ Len(output') = 1)
       => output'[1].time = now]_vars

----------------------------------------------------------------------------
\* C35: whenever the direct-write backend formats an entry (the entry it is
\* handed has a message or a key), the entry's Level is one of 0..4 and the
\* level-name lookup does not fail, whatever threshold SetLevel stored.
C35_FormattedLevelInRange ==
    (/\ emitted
     /\ handed[1].data = "json"
     /\ (handed[1].Message # "" \/ handed[1].Keys # <<>>))
    => /\ handed[1].Level \in LoggerDebug..LoggerFatal
       /\ panicked # "index out of range"

\* C35 witness: a line written by an emission whose receiver carried a
\* threshold outside 0..4
C35_Witness ==
    /\ emitted
    /\ handed[1].data = "json"
    /\ lastCall.recv[1].Level \notin LoggerDebug..LoggerFatal
    /\ Len(output) = 1
    /\ output[1].level \in {"DEBUG", "FATAL"}

----------------------------------------------------------------------------
\* the tasks started by Mount that have not returned
running == { i \in 1..Len(task) : task[i].pc # "exit" }

\* C36: at most one periodic flush task is running at any time.
C36_AtMostOneTaskRunning == Cardinality(running) <= 1

\* C37: with one task started, no Unmount call panics, however many Unmount
\* calls follow or overlap the one whose stop signal the task received.
C37_LateUnmountNeverPanics == mounted <= 1 => crash = ""

----------------------------------------------------------------------------
(* The buffering backend shared by goroutines: the goroutines of Loggers   *)
(* emit to it and one goroutine drains it.  Every Lock and every access to *)
(* data.Data is a step.  An entry is its number in the order the emission  *)
(* calls were made; every emission is an enabled one.                      *)

Drainer == "c1"

\* what ctx.Value(ContextKeyLogger) holds: a direct-write logger, the
\* buffering logger that is being drained, or no Logger
DrainTargets == {"json", "init", "nil"}

\* a Lock of loggerStdDataInit.Mutex that does not wait for the holder
InitLock_NoWait(g) == TRUE

\* loggerStdDataInit: "data.Lock()" returns to goroutine g only when no
\* goroutine holds the mutex, g included
InitLock(g) == ib.mu = ""

concRest == <<mu, done, chans, closed, call, task, mounted, crash>>

\* an emission method on the buffering logger reaches PutLogger:
\* "entry.Time = time.Now()", "data.Lock()" is next
InitPutLoggerCall(g) ==
    /\ pc[g] = "idle"
    /\ ib.calls < MaxOps
    /\ ib' = [ib EXCEPT !.n = @ + 1, !.calls = @ + 1, !.ent[g] = ib.n + 1]
    /\ pc' = [pc EXCEPT ![g] = "p_lock"]
    /\ UNCHANGED <<apiVars, concRest, rotVars, lvl, fmt, hc, wl>>

\* loggerStdDataInit.PutLogger: "data.Lock()"
InitPutLoggerLock(g) ==
    /\ pc[g] = "p_lock"
    /\ InitLock(g)
    /\ ib' = [ib EXCEPT !.mu = g]
    /\ pc' = [pc EXCEPT ![g] = "p_append"]
    /\ UNCHANGED <<apiVars, concRest, rotVars, lvl, fmt, hc, wl>>

\* PutLogger: "data.Data = append(data.Data, entry); data.Unlock()"
InitPutLoggerAppend(g) ==
    /\ pc[g] = "p_append"
    /\ ib' = [ib EXCEPT !.Data = Append(@, ib.ent[g]), !.mu = "",
                        !.ent[g] = 0]
    /\ pc' = [pc EXCEPT ![g] = "idle"]
    /\ UNCHANGED <<apiVars, concRest, rotVars, lvl, fmt, hc, wl>>

\* LoggerStd.Unmount(ctx) is called on the buffering logger
InitUnmountCall(tgt) ==
    /\ pc[Drainer] = "idle"
    /\ ib.calls < MaxOps
    /\ ib' = [ib EXCEPT !.calls = @ + 1, !.target = tgt]
    /\ pc' = [pc EXCEPT ![Drainer] = "u_lock"]
    /\ UNCHANGED <<apiVars, concRest, rotVars, lvl, fmt, hc, wl>>

\* Unmount: "data.Lock()", the target handle is derived, and the range
\* expression data.Data of the loop is evaluated, once
InitUnmountLock ==
    /\ pc[Drainer] = "u_lock"
    /\ InitLock(Drainer)
    /\ ib' = [ib EXCEPT !.mu = Drainer, !.rng = ib.Data, !.i = 1]
    /\ pc' = [pc EXCEPT ![Drainer] = "u_loop"]
    /\ UNCHANGED <<apiVars, concRest, rotVars, lvl, fmt, hc, wl>>

\* one iteration of the loop: the emission method of the target is called
\* for the entry.  A direct-write target writes it; the buffering logger
\* itself as the target hands it to loggerStdDataInit.PutLogger, whose
\* "data.Lock()" is next, in the goroutine that holds the mutex.
InitUnmountReplay ==
    /\ pc[Drainer] = "u_loop"
    /\ ib.i <= Len(ib.rng)
    /\ IF ib.target = "init"
       THEN /\ pc' = [pc EXCEPT ![Drainer] = "p_lock"]
            /\ ib' = [ib EXCEPT !.ent[Drainer] = ib.rng[ib.i]]
       ELSE /\ pc' = pc
            /\ ib' = [ib EXCEPT !.replayed = Append(@, ib.rng[ib.i]),
                                !.i = @ + 1]
    /\ UNCHANGED <<apiVars, concRest, rotVars, lvl, fmt, hc, wl>>

\* after the loop: "data.Data = data.Data[0:0]", "logger.Sync()", the
\* deferred "data.Unlock()" and the return.  over: the entries whose
\* emission waited for the mutex at that moment.
InitUnmountReturn ==
    /\ pc[Drainer] = "u_loop"
    /\ ib.i > Len(ib.rng)
    /\ ib' = [ib EXCEPT !.Data = <<>>, !.mu = "", !.rng = <<>>, !.i = 0,
                        !.target = "",
                        !.over = @ \cup { ib.ent[g] :
                                    g \in { h \in Loggers : pc[h] = "p_lock" } }]
    /\ pc' = [pc EXCEPT ![Drainer] = "idle"]
    /\ UNCHANGED <<apiVars, concRest, rotVars, lvl, fmt, hc, wl>>

NextDrain ==
    \/ \E g \in Loggers : InitPutLoggerCall(g)
    \/ \E g \in Loggers \cup {Drainer} : InitPutLoggerLock(g)
    \/ \E g \in Loggers : InitPutLoggerAppend(g)
    \/ \E tgt \in DrainTargets : InitUnmountCall(tgt)
    \/ InitUnmountLock
    \/ InitUnmountReplay
    \/ InitUnmountReturn

SpecDrain == InitMount /\ [][NextDrain]_vars

\* C38: a drain never waits, inside the replay of an entry, for the mutex of
\* the buffering backend while it holds that mutex itself.
C38_DrainNeverWaitsForOwnMutex ==
    ~ (pc[Drainer] = "p_lock" /\ ib.mu = Drainer)

\* how often x occurs in the sequence s
occurrences(s, x) == Cardinality({ k \in 1..Len(s) : s[k] = x })

\* the entries whose emission call has returned
appended == (1..ib.n) \ { ib.ent[g] : g \in Loggers }

----------------------------------------------------------------------------
(* Emission calls of the goroutines of Loggers on one direct-write logger. *)
(* An emission is its number in the order the calls started; wl.before[b]  *)
(* is the set of emissions of the same goroutine that had returned when b  *)
(* started, wl.log the lines in the order the writer was passed them.      *)

orderRest == <<done, chans, closed, call, task, mounted, crash>>

\* Debug .. Fatalf, enabled, is called: the message is built and PutLogger
\* formats the line; "data.Lock()" is next
OrderEmitCall(g) ==
    /\ pc[g] = "idle"
    /\ wl.n < MaxOps
    /\ wl' = [wl EXCEPT !.n = @ + 1, !.k[g] = wl.n + 1,
                        !.who = Append(@, g),
                        !.before = Append(@, { a \in wl.ret : wl.who[a] = g })]
    /\ pc' = [pc EXCEPT ![g] = "e_lock"]
    /\ UNCHANGED <<apiVars, mu, orderRest, rotVars, lvl, fmt, hc, ib>>

\* loggerStdDataJSON.PutLogger: "data.Lock()"
OrderEmitLock(g) ==
    /\ pc[g] = "e_lock"
    /\ Lock(g)
    /\ pc' = [pc EXCEPT ![g] = "e_write"]
    /\ UNCHANGED <<apiVars, orderRest, rotVars, lvl, fmt, hc, ib, wl>>

\* PutLogger: "data.Write(entry.Buffer); data.Unlock()", the entry is reset
\* and pooled, the emission call returns
OrderEmitWrite(g) ==
    /\ pc[g] = "e_write"
    /\ LET w == Write([out |-> wl.log, dirty |-> dirty], <<wl.k[g]>>)
       IN  /\ wl' = [wl EXCEPT !.log = w.out, !.ret = @ \cup {wl.k[g]},
                               !.k[g] = 0]
           /\ dirty' = w.dirty
    /\ Unlock
    /\ pc' = [pc EXCEPT ![g] = "idle"]
    /\ UNCHANGED <<apiRest, orderRest, rotVars, lvl, fmt, hc, ib>>

NextOrder ==
    \/ \E g \in Loggers : OrderEmitCall(g)
    \/ \E g \in Loggers : OrderEmitLock(g)
    \/ \E g \in Loggers : OrderEmitWrite(g)
    \/ \E g \in Loggers : JSONSyncLock(g)
    \/ \E g \in Loggers : JSONSyncRun(g)

SpecOrder == InitMount /\ [][NextOrder]_vars

====
